---- MODULE Spec2Model ----
(***************************************************************************)
(* FlatSQL: streaming FlatBuffer store, Value ordering and B-tree index.   *)
(*                                                                         *)
(* Specifications:                                                         *)
(*   SpecCmp    compareValues applied to triples of Values                 *)
(*   SpecBTree  one BTree index under insert / clear and its queries       *)
(*   Spec       the database: ingest APIs, loadAndRebuild, export / reload *)
(*   SpecStream a stream source feeding ingest chunk by chunk              *)
(*   SpecIndex  a BTree and a SqliteIndex under the same calls             *)
(*   SpecQuery  the direct-access operations of the database               *)
(*   SpecCLI    the stdin loop of the command-line tool                    *)
(***************************************************************************)
EXTENDS Integers, Sequences, FiniteSets, TLC

VARIABLES
    \* ---- compareValues harness: inputs and results of the calls
    cmpA, cmpB, cmpC,       \* the three Values compared
    cmpAB, cmpBA, cmpBC, cmpAC, \* results of compareValues, "none" before the call
    \* ---- BTree (btree.cpp): fields of one index
    order_,                 \* maximum children per node
    nodes_,                 \* nodeId -> BTreeNode
    rootId_,
    nextNodeId_,
    entryCount_,
    inserted,               \* history: the entries passed to insert, in call order
    qArgs, qResult,         \* arguments and result of the last index query
    \* ---- SqliteIndex (sqlite_index.cpp): one index table and its counter
    sqlTable,               \* rows of "_idx_{table}_{column}" in PRIMARY KEY order
    sqlEntryCount_,         \* SqliteIndex::entryCount_
    sqlInserted,            \* history: the entries whose insert returned normally
    sqlResult,              \* result of the last query on the SqliteIndex
    sqlThrew,               \* whether the last SqliteIndex call threw
    \* ---- StreamingFlatBufferStore (storage.h): fields of the log
    data_,                  \* the buffer, capacity bytes long
    writeOffset_,
    recordCount_,
    nextSequence_,
    sequenceToOffset_,
    offsetToSequence_,
    fileIdToRecords_,
    \* ---- FlatSQLDatabase: one index per table, fed by the ingest callback
    indexes,                \* table name -> BTree
    callbackLog,            \* history: the ingest callback's invocations, in order
    \* ---- results of the last store call
    lastInput,              \* bytes handed to the call
    lastConsumed,           \* ingest: bytes consumed
    lastRecords,            \* ingest: *recordsProcessed
    lastSequence,           \* ingestOne / ingestFlatBuffer: returned sequence
    lastError,              \* "" or the error raised
    prevDb,                 \* history: the database when the last store call began
    \* ---- a second database loaded from an export of the first
    exported, replica, replicaValid,
    \* ---- a stream source feeding ingest in chunks
    stream, pos, buffer, totalRecords,
    feeds,                  \* history: number of ingest calls the source made
    \* ---- SchemaAnalyzer (junction.cpp): fields of SchemaAnalyzer::Impl
    schemaContents,         \* file -> content
    structs,                \* known struct types
    tables,                 \* table name -> TableInfo
    unions,                 \* union name -> UnionInfo
    importGraph,            \* file -> set of included files
    analysis,               \* result of the last analyze()
    prevAnalysis,           \* history: result of the analyze() right before it
    addCalls,               \* history: number of addSchema calls
    analyzeCalls,           \* history: number of analyze calls
    \* ---- JunctionManager (junction.cpp): fields of JunctionManager::Impl
    junctionTables,         \* junction name -> JunctionTableData
    deletedRowIds,
    jmArgs,                 \* history: arguments of the last deleteWithCascade
    prevLive,               \* history: the live junction rows when it began
    \* ---- SqliteIndex::keyType_, fixed at construction
    keyType_,
    \* ---- FlatSQLClient (flatsql-client.js) and the workers it created
    worker,                 \* this.worker: NoWorker or a worker
    ready,                  \* this.ready
    pending,                \* this.pending: ids of the calls not yet answered
    nextId,                 \* this.nextId
    initCalls,              \* each init() call: where it is, and the id of its request
    readyResolved,          \* the readyPromise objects that are resolved
    workers,                \* the workers created: state and inbox of each
    responses,              \* messages in flight from a worker to its handlers
    answered,               \* history: ids of the requests answered
    lastOp                  \* name of the last operation

cmpVars == <<cmpA, cmpB, cmpC, cmpAB, cmpBA, cmpBC, cmpAC>>
btVars  == <<order_, nodes_, rootId_, nextNodeId_, entryCount_, inserted>>
qVars   == <<qArgs, qResult>>
sqlVars == <<sqlTable, sqlEntryCount_, sqlInserted, sqlResult, sqlThrew>>
dbVars  == <<data_, writeOffset_, recordCount_, nextSequence_, sequenceToOffset_,
             offsetToSequence_, fileIdToRecords_, indexes, callbackLog>>
retVars == <<lastInput, lastConsumed, lastRecords, lastSequence, lastError, prevDb>>
repVars == <<exported, replica, replicaValid>>
srcVars == <<stream, pos, buffer, totalRecords, feeds>>
coreVars == <<cmpVars, btVars, qVars, sqlVars, dbVars, retVars, repVars, srcVars>>
anVars  == <<schemaContents, structs, tables, unions, importGraph, analysis,
             prevAnalysis, addCalls, analyzeCalls>>
jmVars  == <<junctionTables, deletedRowIds, jmArgs, prevLive>>
clVars  == <<worker, ready, pending, nextId, initCalls, readyResolved, workers,
             responses, answered>>
extVars == <<anVars, jmVars, keyType_, clVars>>
notAnVars == <<jmVars, keyType_, clVars>>
notJmVars == <<anVars, keyType_, clVars>>
notSqlVars == <<cmpVars, btVars, dbVars, retVars, repVars, srcVars, anVars, jmVars,
                clVars>>
notClVars == <<coreVars, anVars, jmVars, keyType_>>
vars    == <<cmpVars, btVars, qVars, sqlVars, dbVars, retVars, repVars, srcVars,
             extVars, lastOp>>

----------------------------------------------------------------------------
(* Value (tagged union).  A numeric payload is the pair (big, half) and    *)
(* stands for big * 2^62 + half / 2, with |half| < 2^8: this keeps 64-bit  *)
(* magnitudes (2^62, 2^63, 2^64 - 1) and halves (0.5) exact in the model.  *)

MkVal(tag, big, half, nan, bytes) ==
    [tag |-> tag, big |-> big, half |-> half, nan |-> nan, bytes |-> bytes]

Null        == MkVal("Null", 0, 0, FALSE, <<>>)
BoolV(b)    == MkVal("Bool", 0, IF b THEN 2 ELSE 0, FALSE, <<>>)
Int32V(n)   == MkVal("Int32", 0, 2 * n, FALSE, <<>>)
Int64V(q, n)  == MkVal("Int64", q, 2 * n, FALSE, <<>>)
UInt64V(q, n) == MkVal("UInt64", q, 2 * n, FALSE, <<>>)
Float64V(q, h) == MkVal("Float64", q, h, FALSE, <<>>)
NaN         == MkVal("Float64", 0, 0, TRUE, <<>>)
\* a uint32_t payload is the pair (big, half) standing for big * 2^31 + half
\* with big in {0, 1} and 0 <= half < 2^31
UInt32V(q, n) == MkVal("UInt32", q, n, FALSE, <<>>)
StringV(s)  == MkVal("String", 0, 0, FALSE, s)
BytesV(s)   == MkVal("Bytes", 0, 0, FALSE, s)

IntTags   == {"Int8", "Int16", "Int32", "Int64", "UInt8", "UInt16", "UInt32", "UInt64"}
FloatTags == {"Float32", "Float64"}

\* std::variant alternative index of a Value
ValueIndex(v) ==
    CASE v.tag = "Null"    -> 0
      [] v.tag = "Bool"    -> 1
      [] v.tag = "Int8"    -> 2
      [] v.tag = "Int16"   -> 3
      [] v.tag = "Int32"   -> 4
      [] v.tag = "Int64"   -> 5
      [] v.tag = "UInt8"   -> 6
      [] v.tag = "UInt16"  -> 7
      [] v.tag = "UInt32"  -> 8
      [] v.tag = "UInt64"  -> 9
      [] v.tag = "Float32" -> 10
      [] v.tag = "Float64" -> 11
      [] v.tag = "String"  -> 12
      [] v.tag = "Bytes"   -> 13

\* order of two scaled numbers
NumLess(a, b) == a.big < b.big \/ (a.big = b.big /\ a.half < b.half)

\* static_cast<int64_t>(uint64_t): values of 2^63 and above wrap (minus 2^64)
WrapInt64(v) ==
    IF v.big > 2 \/ (v.big = 2 /\ v.half >= 0)
    THEN [big |-> v.big - 4, half |-> v.half]
    ELSE [big |-> v.big, half |-> v.half]

tryGetInt64(v) ==
    IF v.tag = "UInt64" THEN [ok |-> TRUE, num |-> WrapInt64(v)]
    ELSE IF v.tag \in IntTags THEN [ok |-> TRUE, num |-> [big |-> v.big, half |-> v.half]]
    ELSE [ok |-> FALSE, num |-> [big |-> 0, half |-> 0]]

\* static_cast<double>(integer): 53 bits of mantissa, so next to a multiple
\* of 2^62 the low part (below 2^8) is rounded away
ToDouble(v) ==
    IF v.big # 0 THEN [big |-> v.big, half |-> 0, nan |-> FALSE]
    ELSE [big |-> 0, half |-> v.half, nan |-> FALSE]

tryGetDouble(v) ==
    IF v.tag \in FloatTags THEN [ok |-> TRUE, num |-> [big |-> v.big, half |-> v.half, nan |-> v.nan]]
    ELSE IF v.tag \in IntTags THEN [ok |-> TRUE, num |-> ToDouble(v)]
    ELSE [ok |-> FALSE, num |-> [big |-> 0, half |-> 0, nan |-> FALSE]]

\* a < b on doubles: false when either is NaN
DoubleLess(a, b) == ~a.nan /\ ~b.nan /\ NumLess(a, b)

Min(a, b) == IF a < b THEN a ELSE b

\* index of the first position where two byte sequences differ, 0 if none
\* within the common length
RECURSIVE FirstDiff(_, _, _)
FirstDiff(s, t, i) ==
    IF i > Min(Len(s), Len(t)) THEN 0
    ELSE IF s[i] # t[i] THEN i
    ELSE FirstDiff(s, t, i + 1)

\* std::string::compare as libstdc++ computes it: the memcmp difference of
\* the first differing bytes, else the difference of the lengths
StringCompare(s, t) ==
    LET d == FirstDiff(s, t, 1)
    IN IF d # 0 THEN s[d] - t[d] ELSE Len(s) - Len(t)

BlobCompare(s, t) ==
    LET d == FirstDiff(s, t, 1)
    IN IF d # 0 THEN (IF s[d] < t[d] THEN -1 ELSE 1)
       ELSE IF Len(s) < Len(t) THEN -1
       ELSE IF Len(s) > Len(t) THEN 1
       ELSE 0

compareValues(a, b) ==
    IF a.tag = "Null" THEN (IF b.tag = "Null" THEN 0 ELSE -1)
    ELSE IF b.tag = "Null" THEN 1
    ELSE IF tryGetInt64(a).ok /\ tryGetInt64(b).ok THEN
        LET aInt == tryGetInt64(a).num
            bInt == tryGetInt64(b).num
        IN IF NumLess(aInt, bInt) THEN -1
           ELSE IF NumLess(bInt, aInt) THEN 1
           ELSE 0
    ELSE IF tryGetDouble(a).ok /\ tryGetDouble(b).ok THEN
        LET aDouble == tryGetDouble(a).num
            bDouble == tryGetDouble(b).num
        IN IF DoubleLess(aDouble, bDouble) THEN -1
           ELSE IF DoubleLess(bDouble, aDouble) THEN 1
           ELSE 0
    ELSE IF a.tag = "String" /\ b.tag = "String" THEN StringCompare(a.bytes, b.bytes)
    ELSE IF a.tag = "Bytes" /\ b.tag = "Bytes" THEN BlobCompare(a.bytes, b.bytes)
    ELSE IF a.tag = "Bool" /\ b.tag = "Bool" THEN
        (IF a.half = b.half THEN 0 ELSE IF a.half < b.half THEN -1 ELSE 1)
    ELSE IF ValueIndex(a) < ValueIndex(b) THEN -1 ELSE 1

Sign(n) == IF n < 0 THEN -1 ELSE IF n > 0 THEN 1 ELSE 0

\* The values compareValues(a, b) can return across builds: the C++ standard
\* fixes only the sign of std::string::compare.
compareValuesOutcomes(a, b) ==
    IF a.tag = "String" /\ b.tag = "String"
    THEN {compareValues(a, b), Sign(compareValues(a, b))}
    ELSE {compareValues(a, b)}

----------------------------------------------------------------------------
(* BTree (btree.cpp).  A tree value t carries the fields of the class:     *)
(* order_, nodes_, rootId_, nextNodeId_, entryCount_.  Vector positions    *)
(* are 0-based in the code and 1-based here; every operator says which.    *)

MkEntry(key, dataOffset, dataLength, sequence) ==
    [key |-> key, dataOffset |-> dataOffset, dataLength |-> dataLength,
     sequence |-> sequence]

\* v.insert(v.begin() + k, x), k 0-based
InsertAt(v, k, x) == SubSeq(v, 1, k) \o <<x>> \o SubSeq(v, k + 1, Len(v))

\* a createNode that leaves the parent of the new node unset
createNodeWithoutParent(t, isLeaf, parentId) ==
    LET nodeId == t.nextNodeId_
        node == [nodeId |-> nodeId, isLeaf |-> isLeaf, parentId |-> 0,
                 entries |-> <<>>, children |-> <<>>]
    IN [t EXCEPT !.nextNodeId_ = nodeId + 1,
                 !.nodes_ = (nodeId :> node) @@ t.nodes_]

\* createNode: the new node takes id nextNodeId_
createNode(t, isLeaf, parentId) ==
    LET nodeId == t.nextNodeId_
        node == [nodeId |-> nodeId, isLeaf |-> isLeaf, parentId |-> parentId,
                 entries |-> <<>>, children |-> <<>>]
    IN [t EXCEPT !.nextNodeId_ = nodeId + 1,
                 !.nodes_ = (nodeId :> node) @@ t.nodes_]

\* BTree::BTree and BTree::clear: one empty leaf root with id 1
NewTree(order) ==
    [createNode([order_ |-> order, nodes_ |-> <<>>, rootId_ |-> 0,
                 nextNodeId_ |-> 1, entryCount_ |-> 0], TRUE, 0)
        EXCEPT !.rootId_ = 1]

\* "int i = size - 1; while (i >= 0 && compareValues(key, entries[i].key) < 0) i--;"
\* returns i + 1: the number of leading entries that key does not order before
RECURSIVE ScanDown(_, _, _)
ScanDown(entries, key, j) ==
    IF j >= 1 /\ compareValues(key, entries[j].key) < 0
    THEN ScanDown(entries, key, j - 1)
    ELSE j

\* parentId of every node listed in ids becomes newParent
RECURSIVE Reparent(_, _, _)
Reparent(nodes, ids, newParent) ==
    IF ids = <<>> THEN nodes
    ELSE Reparent([nodes EXCEPT ![Head(ids)].parentId = newParent],
                  Tail(ids), newParent)

\* splitChild(parentId, childIndex), childIndex 0-based
splitChild(t, parentId, childIndex) ==
    LET childId   == t.nodes_[parentId].children[childIndex + 1]
        child     == t.nodes_[childId]
        mid       == (t.order_ - 1) \div 2
        t1        == createNode(t, child.isLeaf, parentId)
        siblingId == t.nextNodeId_
        sibEntries  == SubSeq(child.entries, mid + 2, Len(child.entries))
        midEntry    == child.entries[mid + 1]
        sibChildren == IF child.isLeaf THEN <<>>
                       ELSE SubSeq(child.children, mid + 2, Len(child.children))
        keptChildren == IF child.isLeaf THEN child.children
                        ELSE SubSeq(child.children, 1, mid + 1)
        n1 == [t1.nodes_ EXCEPT
                  ![siblingId].entries = sibEntries,
                  ![siblingId].children = sibChildren,
                  ![childId].entries = SubSeq(child.entries, 1, mid),
                  ![childId].children = keptChildren]
        n2 == Reparent(n1, sibChildren, siblingId)
        n3 == [n2 EXCEPT
                  ![parentId].entries = InsertAt(@, childIndex, midEntry),
                  ![parentId].children = InsertAt(@, childIndex + 1, siblingId)]
    IN [t1 EXCEPT !.nodes_ = n3]

RECURSIVE insertNonFull(_, _, _)
insertNonFull(t, nodeId, entry) ==
    LET node == t.nodes_[nodeId]
        i    == ScanDown(node.entries, entry.key, Len(node.entries))
    IN IF node.isLeaf
       THEN [t EXCEPT !.nodes_[nodeId].entries = InsertAt(@, i, entry)]
       ELSE LET childId == node.children[i + 1]
                child   == t.nodes_[childId]
            IN IF Len(child.entries) >= t.order_ - 1
               THEN LET t1 == splitChild(t, nodeId, i)
                        nodeAfterSplit == t1.nodes_[nodeId]
                        i2 == IF compareValues(entry.key, nodeAfterSplit.entries[i + 1].key) > 0
                              THEN i + 1 ELSE i
                    IN insertNonFull(t1, nodeAfterSplit.children[i2 + 1], entry)
               ELSE insertNonFull(t, childId, entry)

\* BTree::insert
BTreeInsertCountsOnly(t, key, dataOffset, dataLength, sequence) ==
    [t EXCEPT !.entryCount_ = @ + 1]
BTreeInsert(t, key, dataOffset, dataLength, sequence) ==
    LET entry == MkEntry(key, dataOffset, dataLength, sequence)
        root  == t.nodes_[t.rootId_]
        t2 == IF Len(root.entries) >= t.order_ - 1
              THEN LET t0 == createNode(t, FALSE, 0)
                       newRootId == t.nextNodeId_
                       t1 == [t0 EXCEPT
                                !.nodes_[newRootId].children = <<t.rootId_>>,
                                !.nodes_[t.rootId_].parentId = newRootId]
                   IN [splitChild(t1, newRootId, 0) EXCEPT !.rootId_ = newRootId]
              ELSE t
        t3 == insertNonFull(t2, t2.rootId_, entry)
    IN [t3 EXCEPT !.entryCount_ = @ + 1]

\* BTree::clear
BTreeClearKeepsNodes(t) == [t EXCEPT !.entryCount_ = 0]
BTreeClear(t) == NewTree(t.order_)

\* "while (i < size && compareValues(key, entries[i].key) > 0) i++;" from 0:
\* returns i (0-based), the number of leading entries that key orders after
RECURSIVE ScanUp(_, _, _)
ScanUp(entries, key, i) ==
    IF i < Len(entries) /\ compareValues(key, entries[i + 1].key) > 0
    THEN ScanUp(entries, key, i + 1)
    ELSE i

\* the run of entries equal to key that starts at 0-based position i
RECURSIVE CollectEqual(_, _, _)
CollectEqual(entries, key, i) ==
    IF i < Len(entries) /\ compareValues(key, entries[i + 1].key) = 0
    THEN <<entries[i + 1]>> \o CollectEqual(entries, key, i + 1)
    ELSE <<>>

RECURSIVE searchNode(_, _, _)
searchNode(t, nodeId, key) ==
    LET node == t.nodes_[nodeId]
        i    == ScanUp(node.entries, key, 0)
        here == CollectEqual(node.entries, key, i)
    IN IF node.isLeaf THEN here
       ELSE here \o searchNode(t, node.children[i + 1], key)

\* BTree::search
BTreeSearch(t, key) == searchNode(t, t.rootId_, key)

\* the result of a first-match search: found with the entry, or not found
Found(entry) == [found |-> TRUE, entry |-> entry]
NotFound == [found |-> FALSE, entry |-> <<>>]

\* searchNodeFirstInt reads the entry's key as an integer: exactly for the
\* integer variants; for any other variant tryGetInt64 leaves entryInt
\* uninitialized and the value read is arbitrary.
\* "keyInt <= entryInt": the outcomes the comparison can have
KeyLeEntryInt(keyInt, entry) ==
    IF tryGetInt64(entry.key).ok
    THEN {~NumLess(tryGetInt64(entry.key).num, keyInt)}
    ELSE {TRUE, FALSE}

\* "keyInt == entryInt": the outcomes the comparison can have
KeyEqEntryInt(keyInt, entry) ==
    IF tryGetInt64(entry.key).ok
    THEN {tryGetInt64(entry.key).num = keyInt}
    ELSE {TRUE, FALSE}

\* the binary search of searchNodeFirstInt over [lo, hi) (0-based): the
\* positions lo it can end at
RECURSIVE LowerBoundInt(_, _, _, _)
LowerBoundInt(entries, keyInt, lo, hi) ==
    IF lo < hi
    THEN LET mid == lo + (hi - lo) \div 2
         IN UNION {IF le THEN LowerBoundInt(entries, keyInt, lo, mid)
                         ELSE LowerBoundInt(entries, keyInt, mid + 1, hi)
                   : le \in KeyLeEntryInt(keyInt, entries[mid + 1])}
    ELSE {lo}

\* searchNodeFirstInt: the results the call can give
RECURSIVE searchNodeFirstInt(_, _, _)
searchNodeFirstInt(t, nodeId, keyInt) ==
    LET node == t.nodes_[nodeId]
        After(lo) ==
            LET below == IF ~node.isLeaf /\ lo < Len(node.children)
                         THEN searchNodeFirstInt(t, node.children[lo + 1], keyInt)
                         ELSE {NotFound}
            IN IF lo < Len(node.entries)
               THEN UNION {IF eq THEN {Found(node.entries[lo + 1])} ELSE below
                           : eq \in KeyEqEntryInt(keyInt, node.entries[lo + 1])}
               ELSE below
    IN UNION {After(lo) : lo \in LowerBoundInt(node.entries, keyInt, 0, Len(node.entries))}

\* the binary search of searchNodeFirst over [lo, hi) (0-based)
RECURSIVE LowerBound(_, _, _, _)
LowerBound(entries, key, lo, hi) ==
    IF lo < hi
    THEN LET mid == lo + (hi - lo) \div 2
         IN IF compareValues(key, entries[mid + 1].key) <= 0
            THEN LowerBound(entries, key, lo, mid)
            ELSE LowerBound(entries, key, mid + 1, hi)
    ELSE lo

\* searchNodeFirst: the results the call can give
RECURSIVE searchNodeFirst(_, _, _)
searchNodeFirst(t, nodeId, key) ==
    IF tryGetInt64(key).ok
    THEN searchNodeFirstInt(t, nodeId, tryGetInt64(key).num)
    ELSE LET node == t.nodes_[nodeId]
             lo   == LowerBound(node.entries, key, 0, Len(node.entries))
         IN IF lo < Len(node.entries) /\ compareValues(key, node.entries[lo + 1].key) = 0
            THEN {Found(node.entries[lo + 1])}
            ELSE IF ~node.isLeaf /\ lo < Len(node.children)
            THEN searchNodeFirst(t, node.children[lo + 1], key)
            ELSE {NotFound}

\* BTree::searchFirst
BTreeSearchFirst(t, key) == searchNodeFirst(t, t.rootId_, key)

\* "if (cmpMin >= 0 && cmpMax <= 0)": both bounds inclusive
InRangeExclusiveMin(cmpMin, cmpMax) == cmpMin > 0 /\ cmpMax <= 0
InRange(cmpMin, cmpMax) == cmpMin >= 0 /\ cmpMax <= 0

\* rangeSearch: RangeLoop is the while loop from 0-based position i on
RECURSIVE rangeSearch(_, _, _, _), RangeLoop(_, _, _, _, _)
RangeLoop(t, nodeId, i, minKey, maxKey) ==
    LET node == t.nodes_[nodeId]
    IN IF i < Len(node.entries)
       THEN LET entry  == node.entries[i + 1]
                cmpMin == compareValues(entry.key, minKey)
                cmpMax == compareValues(entry.key, maxKey)
                left == IF ~node.isLeaf /\ cmpMin >= 0 /\ i < Len(node.children)
                        THEN rangeSearch(t, node.children[i + 1], minKey, maxKey)
                        ELSE <<>>
                self == IF InRange(cmpMin, cmpMax) THEN <<entry>> ELSE <<>>
            IN IF cmpMax > 0 THEN left \o self
               ELSE left \o self \o RangeLoop(t, nodeId, i + 1, minKey, maxKey)
       ELSE IF ~node.isLeaf /\ Len(node.children) > i
            THEN rangeSearch(t, node.children[i + 1], minKey, maxKey)
            ELSE <<>>
rangeSearch(t, nodeId, minKey, maxKey) == RangeLoop(t, nodeId, 0, minKey, maxKey)

\* BTree::range
BTreeRange(t, minKey, maxKey) == rangeSearch(t, t.rootId_, minKey, maxKey)

RECURSIVE collectAll(_, _), CollectLoop(_, _, _)
CollectLoop(t, nodeId, i) ==
    LET node == t.nodes_[nodeId]
    IN IF i < Len(node.entries)
       THEN (IF ~node.isLeaf THEN collectAll(t, node.children[i + 1]) ELSE <<>>)
            \o <<node.entries[i + 1]>> \o CollectLoop(t, nodeId, i + 1)
       ELSE IF ~node.isLeaf /\ Len(node.children) > Len(node.entries)
            THEN collectAll(t, node.children[Len(node.children)])
            ELSE <<>>
collectAll(t, nodeId) == CollectLoop(t, nodeId, 0)

\* BTree::all
BTreeAll(t) == collectAll(t, t.rootId_)

----------------------------------------------------------------------------
(* SqliteIndex (sqlite_index.cpp): the index is the table                  *)
(*   "_idx_{table}_{column}" (key NOT NULL, data_offset, data_length,      *)
(*    sequence, PRIMARY KEY (key, sequence)) WITHOUT ROWID                 *)
(* of an INTEGER key, kept here as its rows in PRIMARY KEY order, and the  *)
(* counter entryCount_.                                                    *)

INT_MAX == 2147483647

\* static_cast<int>(uint32_t): the value modulo 2^32 in -2^31 .. 2^31 - 1
UInt32ToInt(q, n) == IF q = 0 THEN n ELSE (n - INT_MAX) - 1

\* bindKey: the SQL value bound for a Value (monostate binds NULL, bool and
\* the integers bind an INTEGER)
bindKey(key) ==
    IF key.tag = "Null" THEN [type |-> "NULL", int |-> 0]
    ELSE IF key.tag = "UInt32"
    THEN [type |-> "INTEGER", int |-> UInt32ToInt(key.big, key.half)]
    ELSE [type |-> "INTEGER", int |-> key.half \div 2]

\* extractKey: static_cast<int32_t>(sqlite3_column_int) for keyType_ Int32,
\* static_cast<uint32_t>(sqlite3_column_int) for keyType_ UInt32
extractKey(cell) ==
    IF keyType_ = "UInt32"
    THEN (IF cell.int >= 0 THEN UInt32V(0, cell.int)
          ELSE UInt32V(1, (cell.int + INT_MAX) + 1))
    ELSE Int32V(cell.int)

extractEntry(row) ==
    MkEntry(extractKey(row.key), row.data_offset, row.data_length, row.sequence)

\* SqliteIndex::SqliteIndex on a database without the table
NewSqliteIndex == [table |-> <<>>, entryCount_ |-> 0]

\* order of the PRIMARY KEY (key, sequence)
PrimaryKeyLess(a, b) ==
    \/ a.key.int < b.key.int
    \/ a.key.int = b.key.int /\ a.sequence < b.sequence

\* the INSERT statement: SQLITE_CONSTRAINT for a NULL key (NOT NULL) and
\* for a (key, sequence) already present (PRIMARY KEY), SQLITE_DONE otherwise
InsertStep(table, row) ==
    IF row.key.type = "NULL" THEN "SQLITE_CONSTRAINT"
    ELSE IF \E i \in 1..Len(table) :
               table[i].key.int = row.key.int /\ table[i].sequence = row.sequence
    THEN "SQLITE_CONSTRAINT"
    ELSE "SQLITE_DONE"

\* SqliteIndex::insert: throws unless the step is SQLITE_DONE
SqliteInsertIgnoresResult(s, key, dataOffset, dataLength, sequence) ==
    LET row == [key |-> bindKey(key), data_offset |-> dataOffset,
                data_length |-> dataLength, sequence |-> sequence]
        k   == Cardinality({i \in 1..Len(s.table) : PrimaryKeyLess(s.table[i], row)})
    IN [index |-> [table |-> IF InsertStep(s.table, row) = "SQLITE_DONE"
                             THEN InsertAt(s.table, k, row) ELSE s.table,
                   entryCount_ |-> s.entryCount_ + 1],
        threw |-> FALSE]
SqliteInsert(s, key, dataOffset, dataLength, sequence) ==
    LET row == [key |-> bindKey(key), data_offset |-> dataOffset,
                data_length |-> dataLength, sequence |-> sequence]
        k   == Cardinality({i \in 1..Len(s.table) : PrimaryKeyLess(s.table[i], row)})
    IN IF InsertStep(s.table, row) = "SQLITE_DONE"
       THEN [index |-> [table |-> InsertAt(s.table, k, row),
                        entryCount_ |-> s.entryCount_ + 1],
             threw |-> FALSE]
       ELSE [index |-> s, threw |-> TRUE]

\* the rows of "WHERE key = ?": none when NULL is bound
RowsEqual(table, cell) ==
    IF cell.type = "NULL" THEN <<>>
    ELSE SelectSeq(table, LAMBDA row : row.key.int = cell.int)

\* the rows of "WHERE key >= ? AND key <= ? ORDER BY key"
RowsBetween(table, lo, hi) ==
    IF lo.type = "NULL" \/ hi.type = "NULL" THEN <<>>
    ELSE SelectSeq(table, LAMBDA row : row.key.int >= lo.int /\ row.key.int <= hi.int)

Entries(rows) == [i \in 1..Len(rows) |-> extractEntry(rows[i])]

\* SqliteIndex::search
SqliteSearch(s, key) == Entries(RowsEqual(s.table, bindKey(key)))

\* SqliteIndex::searchFirst ("... WHERE key = ? LIMIT 1")
SqliteSearchFirst(s, key) ==
    LET rows == RowsEqual(s.table, bindKey(key))
    IN IF rows # <<>> THEN Found(extractEntry(rows[1])) ELSE NotFound

\* SqliteIndex::range
SqliteRange(s, minKey, maxKey) ==
    Entries(RowsBetween(s.table, bindKey(minKey), bindKey(maxKey)))

\* SqliteIndex::all ("... ORDER BY key")
SqliteAll(s) == Entries(s.table)

\* SqliteIndex::clear ("DELETE FROM ...")
SqliteClearKeepsCount(s) == [table |-> <<>>, entryCount_ |-> s.entryCount_]
SqliteClear(s) == [table |-> <<>>, entryCount_ |-> 0]

----------------------------------------------------------------------------
(* Stream wire format: frame := size:u32le payload                         *)

LE32(n) == <<n % 256, (n \div 256) % 256, (n \div 65536) % 256, (n \div 16777216) % 256>>

\* the u32 at 0-based position off of bytes
ReadLE32(bytes, off) ==
    bytes[off + 1] + 256 * bytes[off + 2] + 65536 * bytes[off + 3]
        + 16777216 * bytes[off + 4]

Frame(payload) == LE32(Len(payload)) \o payload

RECURSIVE Frames(_)
Frames(payloads) ==
    IF payloads = <<>> THEN <<>>
    ELSE Frame(Head(payloads)) \o Frames(Tail(payloads))

\* file identifiers
USER == <<85, 83, 69, 82>>
POST == <<80, 79, 83, 84>>
XXXX == <<88, 88, 88, 88>>
ZeroFileId == <<0, 0, 0, 0>>

\* extractFileId: payload bytes [4..8), the zero id for a payload under 8 bytes
extractFileId(payload) ==
    IF Len(payload) < 8 THEN ZeroFileId ELSE SubSeq(payload, 5, 8)

\* registerFileId("USER", "User"), registerFileId("POST", "Post")
Tables == {"User", "Post"}
Registered == {USER, POST}
TableOf(fileId) == IF fileId = USER THEN "User" ELSE "Post"
FileIdOf(tbl) == IF tbl = "User" THEN USER ELSE POST

\* The host's field extractor for the indexed column: the records of the
\* model keep the column in payload byte 8, and a record without that byte
\* has no value for it.
extractField(payload) ==
    IF Len(payload) >= 9 THEN Int32V(payload[9]) ELSE Null

----------------------------------------------------------------------------
(* StreamingFlatBufferStore and the database around it.  A value db        *)
(* carries the fields of the store, the indexes and the callback history.  *)

InitialCapacity == 16

\* order of the indexes the database creates
DbOrder == 4

InitialNextSequenceZero == 0
InitialNextSequence == 1

FreshDb ==
    [data_ |-> [i \in 1..InitialCapacity |-> 0],
     writeOffset_ |-> 0,
     recordCount_ |-> 0,
     nextSequence_ |-> InitialNextSequence,
     sequenceToOffset_ |-> <<>>,
     offsetToSequence_ |-> <<>>,
     fileIdToRecords_ |-> <<>>,
     indexes |-> [tbl \in Tables |-> NewTree(DbOrder)],
     callbackLog |-> <<>>]

\* ensureCapacity: the capacity doubles until needed bytes fit
RECURSIVE GrownCapacity(_, _)
GrownCapacity(capacity, needed) ==
    IF capacity >= needed THEN capacity ELSE GrownCapacity(2 * capacity, needed)

ensureCapacity(data, writeOffset, needed) ==
    LET capacity == GrownCapacity(Len(data), writeOffset + needed)
    IN data \o [i \in 1..(capacity - Len(data)) |-> 0]

\* indexRecord: the record joins the bucket of its file identifier
indexRecordPrepends(buckets, fileId, offset, sequence) ==
    LET info == [offset |-> offset, sequence |-> sequence]
    IN IF fileId \in DOMAIN buckets
       THEN [buckets EXCEPT ![fileId] = <<info>> \o @]
       ELSE (fileId :> <<info>>) @@ buckets
indexRecord(buckets, fileId, offset, sequence) ==
    LET info == [offset |-> offset, sequence |-> sequence]
    IN IF fileId \in DOMAIN buckets
       THEN [buckets EXCEPT ![fileId] = Append(@, info)]
       ELSE (fileId :> <<info>>) @@ buckets

\* The database's ingest callback: a record of a registered file identifier
\* gives one entry to the index of its table; any other record is dropped.
onIngestRoutesUnknownToUser(idx, fileId, payload, sequence, offset) ==
    LET tbl == IF fileId \in Registered THEN TableOf(fileId) ELSE "User"
    IN [idx EXCEPT ![tbl] =
            BTreeInsert(@, extractField(payload), offset, Len(payload), sequence)]
onIngest(idx, fileId, payload, sequence, offset) ==
    IF fileId \in Registered
    THEN [idx EXCEPT ![TableOf(fileId)] =
            BTreeInsert(@, extractField(payload), offset, Len(payload), sequence)]
    ELSE idx

\* ingestFlatBuffer: append [size][payload] at writeOffset_, then take the
\* next sequence, update the three maps and invoke the callback
ingestFlatBuffer(db, payload) ==
    LET offset   == db.writeOffset_
        frame    == Frame(payload)
        grown    == ensureCapacity(db.data_, offset, Len(frame))
        sequence == db.nextSequence_
        fileId   == extractFileId(payload)
    IN [data_ |-> SubSeq(grown, 1, offset) \o frame
                     \o SubSeq(grown, offset + Len(frame) + 1, Len(grown)),
        writeOffset_ |-> offset + Len(frame),
        recordCount_ |-> db.recordCount_ + 1,
        nextSequence_ |-> sequence + 1,
        sequenceToOffset_ |-> (sequence :> offset) @@ db.sequenceToOffset_,
        offsetToSequence_ |-> (offset :> sequence) @@ db.offsetToSequence_,
        fileIdToRecords_ |-> indexRecord(db.fileIdToRecords_, fileId, offset, sequence),
        indexes |-> onIngest(db.indexes, fileId, payload, sequence, offset),
        callbackLog |-> Append(db.callbackLog,
                          [fileId |-> fileId, payload |-> payload,
                           sequence |-> sequence, offset |-> offset])]

\* ingest: walk the complete frames from position 0 (off, 0-based), stop at
\* the first incomplete one
RECURSIVE IngestLoop(_, _, _, _)
IngestLoop(db, bytes, off, count) ==
    IF off + 4 <= Len(bytes) /\ off + 4 + ReadLE32(bytes, off) <= Len(bytes)
    THEN LET size == ReadLE32(bytes, off)
         IN IngestLoop(ingestFlatBuffer(db, SubSeq(bytes, off + 5, off + 4 + size)),
                       bytes, off + 4 + size, count + 1)
    ELSE [db |-> db, bytesConsumed |-> off, recordsProcessed |-> count]

ingestReportsLength(db, bytes) ==
    [IngestLoop(db, bytes, 0, 0) EXCEPT !.bytesConsumed = Len(bytes)]
ingest(db, bytes) == IngestLoop(db, bytes, 0, 0)

\* ingestOne: exactly one framed record, else MalformedFrame
ingestOne(db, bytes) ==
    IF Len(bytes) >= 4 /\ 4 + ReadLE32(bytes, 0) = Len(bytes)
    THEN [db |-> ingestFlatBuffer(db, SubSeq(bytes, 5, Len(bytes))),
          sequence |-> db.nextSequence_, error |-> ""]
    ELSE [db |-> db, sequence |-> 0, error |-> "MalformedFrame"]

\* loadAndRebuild: the store is reset, every index is cleared, then blob is
\* replayed as a stream
loadAndRebuildKeepsState(db, blob) == ingest(db, blob).db
loadAndRebuild(db, blob) ==
    ingest([FreshDb EXCEPT !.indexes = [tbl \in Tables |-> BTreeClear(db.indexes[tbl])]],
           blob).db

\* exportData: the live prefix [0, writeOffset_)
exportDataWholeBuffer(db) == db.data_
exportDataDropsLastByte(db) == SubSeq(db.data_, 1, db.writeOffset_ - 1)
exportData(db) == SubSeq(db.data_, 1, db.writeOffset_)

\* readRecord / hasRecord
hasRecordUpToNext(db, sequence) == sequence >= 1 /\ sequence <= db.nextSequence_
hasRecord(db, sequence) == sequence \in DOMAIN db.sequenceToOffset_

readRecord(db, sequence) ==
    LET offset == db.sequenceToOffset_[sequence]
        length == ReadLE32(db.data_, offset)
        data   == SubSeq(db.data_, offset + 5, offset + 4 + length)
    IN [header |-> [fileId |-> extractFileId(data), sequence |-> sequence,
                    offset |-> offset, length |-> length],
        data |-> data]

\* iterateByFileId: the records of a bucket in bucket order
scan(db, fileId) ==
    IF fileId \in DOMAIN db.fileIdToRecords_ THEN db.fileIdToRecords_[fileId] ELSE <<>>

\* findByIndex: the index entries of a key, materialized through the log
findByIndex(db, tbl, key) ==
    LET entries == BTreeSearch(db.indexes[tbl], key)
    IN [i \in 1..Len(entries) |-> readRecord(db, entries[i].sequence)]

----------------------------------------------------------------------------
(* Bounds and input domains                                                *)

MaxInserts == 6

\* records in the log
MaxRecords == 3

\* frames in one ingest call
MaxBatch == 2

\* frames in the stream of the chunked source
MaxStreamFrames == 3

\* payloads: a User record with key 1, a User record without the indexed
\* field, a Post record, a record of an unregistered file identifier and a
\* payload too short to carry a file identifier
PayloadUser1 == <<8, 0, 0, 0>> \o USER \o <<1>>
PayloadUserNoKey == <<8, 0, 0, 0>> \o USER
PayloadPost1 == <<8, 0, 0, 0>> \o POST \o <<1>>
PayloadUnknown == <<8, 0, 0, 0>> \o XXXX
PayloadShort == <<1, 2>>
Payloads == {PayloadUser1, PayloadUserNoKey, PayloadPost1, PayloadUnknown,
             PayloadShort}

\* payloads of the chunked source, of lengths 9, 8 and 2
StreamPayloads == {PayloadUser1, PayloadUnknown, PayloadShort}

\* sequences of at most n elements of P
RECURSIVE SeqsUpTo(_, _)
SeqsUpTo(P, n) ==
    IF n = 0 THEN {<<>>}
    ELSE SeqsUpTo(P, n - 1) \cup
         {Append(ps, p) : ps \in {q \in SeqsUpTo(P, n - 1) : Len(q) = n - 1}, p \in P}

\* what can follow the complete frames of an input: nothing, 3 bytes of a
\* size prefix, a whole size prefix, a size prefix and part of its payload
Tails == {SubSeq(Frame(PayloadUser1), 1, n) : n \in {0, 3, 4, 9}}

\* the frames of one ingest call
Batches == SeqsUpTo(Payloads, MaxBatch)

\* inputs of loadAndRebuild: an empty blob, one frame, two frames of
\* different tables, and a blob cut inside its last frame
LoadBlobs == {Frames(ps) : ps \in SeqsUpTo(Payloads, 1)}
             \cup {Frames(<<PayloadUser1, PayloadPost1>>),
                   Frames(<<PayloadPost1>>) \o SubSeq(Frame(PayloadUser1), 1, 9)}

\* inputs of ingestOne: one exact frame, or bytes whose length disagrees
\* with the declared size
OneInputs == {Frame(p) : p \in Payloads}
             \cup {SubSeq(Frame(PayloadUser1), 1, 12), <<1, 0, 0>>,
                   Frame(PayloadShort) \o <<7>>}

\* well-formed framed streams for the chunked source
Streams == {Frames(ps) : ps \in SeqsUpTo(StreamPayloads, MaxStreamFrames)}

\* orders the index is built with (testBTree uses 4)
Orders == {3, 4}

\* keys of an Int32 index; Null is the key of a record without the field
BTreeKeys == {Null, Int32V(1), Int32V(2)}

\* keys looked up in the indexes of the database
IndexKeys == {Null, Int32V(1), Int32V(2)}

\* Values handed to compareValues: every rule of the comparison has a pair
CmpValues ==
    { Null, BoolV(FALSE), BoolV(TRUE),
      Int32V(-1), Int32V(0), Int32V(1),
      Int64V(1, 0), Int64V(1, 1),          \* 2^62, 2^62 + 1
      UInt64V(2, 0), UInt64V(4, -1),       \* 2^63, 2^64 - 1
      Float64V(0, 1), Float64V(1, 0), NaN, \* 0.5, 2^62, NaN
      StringV(<<97>>), StringV(<<99>>), StringV(<<97, 98>>),
      BytesV(<<1>>), BytesV(<<1, 2>>) }

----------------------------------------------------------------------------
(* SchemaAnalyzer (junction.cpp).  A schema content is modelled by what the *)
(* parse* regular expressions extract from it: the included file names,     *)
(* the struct names, the unions and the tables with their fields, each in   *)
(* textual order.  std::map and std::set iterate in key order, given here   *)
(* by FileOrder and TypeOrder.                                              *)

FileOrder == <<"a.fbs", "b.fbs", "c.fbs">>
TypeOrder == <<"A", "B", "S", "U">>

\* the elements of a std::set / keys of a std::map in iteration order
SortedBy(order, S) == SelectSeq(order, LAMBDA x : x \in S)

SeqToSetOf(order) == {order[i] : i \in 1..Len(order)}

FileSet == SeqToSetOf(FileOrder)

\* m[k] = v on a std::map
MapPut(m, k, v) == [x \in DOMAIN m \cup {k} |-> IF x = k THEN v ELSE m[x]]

MkField(fieldName, isVector, typeName) ==
    [fieldName |-> fieldName, isVector |-> isVector, typeName |-> typeName]

MkContent(includes, structNames, unionDefs, tableDefs) ==
    [includes |-> includes, structs |-> structNames, unions |-> unionDefs,
     tables |-> tableDefs]

\* parseIncludes
parseIncludes(impl, filePath, content) ==
    LET old == IF filePath \in DOMAIN impl.importGraph
               THEN impl.importGraph[filePath] ELSE {}
    IN [impl EXCEPT !.importGraph = MapPut(@, filePath, old \cup content.includes)]

\* parseStructs
parseStructs(impl, content) == [impl EXCEPT !.structs = @ \cup content.structs]

\* parseUnions
RECURSIVE parseUnions(_, _, _)
parseUnions(impl, filePath, unionDefs) ==
    IF unionDefs = <<>> THEN impl
    ELSE LET u == Head(unionDefs)
             info == [name |-> u.name, sourceFile |-> filePath,
                      memberTypes |-> u.memberTypes]
         IN parseUnions([impl EXCEPT !.unions = MapPut(@, u.name, info)],
                        filePath, Tail(unionDefs))

\* parseTableFields: a field gives a reference only when its type is, at
\* this moment, a key of tables or of unions
RECURSIVE parseTableFields(_, _)
parseTableFields(impl, fields) ==
    IF fields = <<>> THEN <<>>
    ELSE LET f == Head(fields)
             rest == parseTableFields(impl, Tail(fields))
         IN IF f.typeName \in impl.structs THEN rest
            ELSE IF f.typeName \in DOMAIN impl.tables
            THEN <<[fieldName |-> f.fieldName, referencedType |-> f.typeName,
                    relationType |-> IF f.isVector THEN "VECTOR_TABLE"
                                     ELSE "SINGLE_TABLE",
                    unionTypes |-> <<>>]>> \o rest
            ELSE IF f.typeName \in DOMAIN impl.unions
            THEN <<[fieldName |-> f.fieldName, referencedType |-> f.typeName,
                    relationType |-> IF f.isVector THEN "VECTOR_UNION" ELSE "UNION",
                    unionTypes |-> impl.unions[f.typeName].memberTypes]>> \o rest
            ELSE rest

\* parseTables: isImported is computed once, from the import graph as it is
\* when this file is parsed
RECURSIVE parseTablesLoop(_, _, _, _)
parseTablesLoop(impl, filePath, isImported, tableDefs) ==
    IF tableDefs = <<>> THEN impl
    ELSE LET t == Head(tableDefs)
             info == [name |-> t.name, sourceFile |-> filePath,
                      isImported |-> isImported,
                      references |-> parseTableFields(impl, t.fields)]
         IN parseTablesLoop([impl EXCEPT !.tables = MapPut(@, t.name, info)],
                            filePath, isImported, Tail(tableDefs))

parseTables(impl, filePath, content) ==
    LET isImported == \E file \in DOMAIN impl.importGraph :
                         file # filePath /\ filePath \in impl.importGraph[file]
    IN parseTablesLoop(impl, filePath, isImported, content.tables)

\* parseSchema: includes, structs, unions, tables
parseSchema(impl, filePath, content) ==
    parseTables(
        parseUnions(parseStructs(parseIncludes(impl, filePath, content), content),
                    filePath, content.unions),
        filePath, content)

\* the first pass of analyze(): every schema in path order
RECURSIVE parseAll(_, _, _)
parseAll(impl, contents, paths) ==
    IF paths = <<>> THEN impl
    ELSE parseAll(parseSchema(impl, Head(paths), contents[Head(paths)]),
                  contents, Tail(paths))

\* position of the first x in path (std::find)
FindFirst(path, x) == CHOOSE i \in 1..Len(path) :
                         path[i] = x /\ \A j \in 1..(i - 1) : path[j] # x

\* detectCycles: the dfs lambda and its loop over the neighbours
RECURSIVE dfs(_, _, _)
RECURSIVE dfsNeighbors(_, _, _)
dfs(g, node, st) ==
    LET st1 == [st EXCEPT !.visited = @ \cup {node}, !.inStack = @ \cup {node},
                          !.path = Append(@, node)]
        nbrs == IF node \in DOMAIN g THEN SortedBy(FileOrder, g[node]) ELSE <<>>
        st2 == dfsNeighbors(g, nbrs, st1)
    IN IF st2.hasCycle THEN st2
       ELSE [st2 EXCEPT !.path = SubSeq(@, 1, Len(@) - 1), !.inStack = @ \ {node}]

dfsNeighbors(g, nbrs, st) ==
    IF nbrs = <<>> THEN st
    ELSE LET neighbor == Head(nbrs)
         IN IF neighbor \notin st.visited
            THEN LET r == dfs(g, neighbor, st)
                 IN IF r.hasCycle THEN r ELSE dfsNeighbors(g, Tail(nbrs), r)
            ELSE IF neighbor \in st.inStack
            THEN [st EXCEPT !.hasCycle = TRUE,
                            !.cyclePath = SubSeq(st.path, FindFirst(st.path, neighbor),
                                                 Len(st.path)) \o <<neighbor>>]
            ELSE dfsNeighbors(g, Tail(nbrs), st)

RECURSIVE detectLoop(_, _, _)
detectLoop(g, nodes, st) ==
    IF nodes = <<>> \/ st.hasCycle THEN st
    ELSE IF Head(nodes) \in st.visited THEN detectLoop(g, Tail(nodes), st)
    ELSE detectLoop(g, Tail(nodes), dfs(g, Head(nodes), st))

detectCycles(g) ==
    LET st == detectLoop(g, SortedBy(FileOrder, DOMAIN g),
                         [visited |-> {}, inStack |-> {}, path |-> <<>>,
                          hasCycle |-> FALSE, cyclePath |-> <<>>])
    IN [hasCycle |-> st.hasCycle, cyclePath |-> st.cyclePath]

\* topologicalSort: Kahn's algorithm on in-degrees, then reversed
InDegree(g) ==
    [n \in DOMAIN g \cup UNION {g[f] : f \in DOMAIN g} |->
        Cardinality({f \in DOMAIN g : n \in g[f]})]

RECURSIVE Relax(_, _, _)
Relax(nbrs, inDegree, queue) ==
    IF nbrs = <<>> THEN [inDegree |-> inDegree, queue |-> queue]
    ELSE LET n == Head(nbrs)
             d == inDegree[n] - 1
         IN Relax(Tail(nbrs), [inDegree EXCEPT ![n] = d],
                  IF d = 0 THEN Append(queue, n) ELSE queue)

RECURSIVE KahnLoop(_, _, _, _)
KahnLoop(g, inDegree, queue, result) ==
    IF queue = <<>> THEN result
    ELSE LET node == Head(queue)
             nbrs == IF node \in DOMAIN g THEN SortedBy(FileOrder, g[node]) ELSE <<>>
             r == Relax(nbrs, inDegree, Tail(queue))
         IN KahnLoop(g, r.inDegree, r.queue, Append(result, node))

Reverse(s) == [i \in 1..Len(s) |-> s[Len(s) + 1 - i]]

topologicalSort(g) ==
    LET inDegree == InDegree(g)
        queue == SortedBy(FileOrder, {n \in DOMAIN inDegree : inDegree[n] = 0})
    IN Reverse(KahnLoop(g, inDegree, queue, <<>>))

\* generateJunctionTables: one junction table per recorded reference
RECURSIVE JunctionsOf(_, _)
JunctionsOf(tableName, refs) ==
    IF refs = <<>> THEN <<>>
    ELSE LET ref == Head(refs)
             isUnion == ref.relationType \in {"UNION", "VECTOR_UNION"}
         IN <<[name |-> <<tableName, "__", ref.fieldName>>,
               parentTable |-> tableName, fieldName |-> ref.fieldName,
               relationType |-> ref.relationType,
               childTable |-> IF isUnion THEN "" ELSE ref.referencedType,
               unionChildTables |-> IF isUnion THEN ref.unionTypes ELSE <<>>]>>
            \o JunctionsOf(tableName, Tail(refs))

RECURSIVE JunctionsLoop(_, _)
JunctionsLoop(tbls, names) ==
    IF names = <<>> THEN <<>>
    ELSE JunctionsOf(Head(names), tbls[Head(names)].references)
         \o JunctionsLoop(tbls, Tail(names))

generateJunctionTables(tbls) == JunctionsLoop(tbls, SortedBy(TypeOrder, DOMAIN tbls))

NoCycle == [present |-> FALSE, hasCycle |-> FALSE, cyclePath |-> <<>>]

\* SchemaAnalyzer::analyze on the analyzer impl: the new impl and the result
analyze(impl) ==
    LET parsed == parseAll(impl, impl.schemaContents,
                           SortedBy(FileOrder, DOMAIN impl.schemaContents))
        cycle == detectCycles(parsed.importGraph)
    IN [impl |-> parsed,
        result |-> [cycle |-> IF cycle.hasCycle
                              THEN [present |-> TRUE, hasCycle |-> TRUE,
                                    cyclePath |-> cycle.cyclePath]
                              ELSE NoCycle,
                    errors |-> IF cycle.hasCycle
                               THEN <<<<"Circular import detected: ", cycle.cyclePath>>>>
                               ELSE <<>>,
                    importOrder |-> topologicalSort(parsed.importGraph),
                    tables |-> parsed.tables,
                    unions |-> parsed.unions,
                    importGraph |-> parsed.importGraph,
                    junctionTables |-> generateJunctionTables(parsed.tables)]]

\* input domains of the analyzer
MaxAdds == 3
MaxAnalyzes == 2

TableA == [name |-> "A",
           fields |-> <<MkField("first", FALSE, "B"), MkField("self", TRUE, "A"),
                        MkField("item", FALSE, "U"), MkField("pos", FALSE, "S"),
                        MkField("n", FALSE, "int")>>]
TableB == [name |-> "B", fields |-> <<MkField("n", FALSE, "int")>>]
UnionU == [name |-> "U", memberTypes |-> <<"B">>]

\* contents that differ in their includes only
GraphContents == {MkContent(inc, {}, <<>>, <<>>) : inc \in SUBSET FileSet}

\* contents that differ in what they define and in which order
TypedFiles == {"a.fbs", "b.fbs"}
TypedContents ==
    {MkContent(inc, body[1], body[2], body[3]) :
        inc \in {{}, {"a.fbs"}, {"b.fbs"}},
        body \in {<<{}, <<>>, <<>>>>,
                  <<{"S"}, <<UnionU>>, <<TableA, TableB>>>>,
                  <<{"S"}, <<UnionU>>, <<TableB, TableA>>>>,
                  <<{}, <<>>, <<TableA>>>>,
                  <<{"S"}, <<UnionU>>, <<TableB>>>>}}

----------------------------------------------------------------------------
(* JunctionManager (junction.cpp).  parentIndex and childIndex are extended *)
(* when a row is added and rebuilt from the rows whose id is not 0 when     *)
(* rows are removed, so a lookup in them is a scan of the live rows.        *)

None == "none"
JunctionOrder == <<"A__item", "A__kids", "B__owner">>

MkJunction(name, parentTable, fieldName, relationType, childTable, unionChildTables) ==
    [name |-> name, parentTable |-> parentTable, fieldName |-> fieldName,
     relationType |-> relationType, childTable |-> childTable,
     unionChildTables |-> unionChildTables]

\* the junction tables of the schema
\*   union U { B }  table A { kids: [A]; item: U; }  table B { owner: A; }
JunctionDefs ==
    <<MkJunction("A__item", "A", "item", "UNION", "", <<"B">>),
      MkJunction("A__kids", "A", "kids", "VECTOR_TABLE", "A", <<>>),
      MkJunction("B__owner", "B", "owner", "SINGLE_TABLE", "A", <<>>)>>

\* JunctionManager::initialize
RECURSIVE initialize(_, _)
initialize(jts, defs) ==
    IF defs = <<>> THEN jts
    ELSE initialize(MapPut(jts, Head(defs).name,
                           [definition |-> Head(defs), rows |-> <<>>, nextId |-> 1]),
                    Tail(defs))

\* Impl::addJunctionRow
addJunctionRow(jts, junctionName, parentRowId, childRowId, vecIndex, unionType) ==
    IF junctionName \notin DOMAIN jts THEN jts
    ELSE LET row == [id |-> jts[junctionName].nextId, parentRowId |-> parentRowId,
                     childRowId |-> childRowId, vecIndex |-> vecIndex,
                     unionType |-> unionType]
         IN [jts EXCEPT ![junctionName].rows = Append(@, row),
                        ![junctionName].nextId = @ + 1]

\* Impl::removeByParent: the rows of the parent are marked by id 0
removeByParent(jts, junctionName, parentRowId) ==
    IF junctionName \notin DOMAIN jts THEN jts
    ELSE [jts EXCEPT ![junctionName].rows =
             [i \in 1..Len(@) |-> IF @[i].id # 0 /\ @[i].parentRowId = parentRowId
                                  THEN [@[i] EXCEPT !.id = 0] ELSE @[i]]]

\* Impl::getChildrenByParent
getChildrenByParent(jts, junctionName, parentRowId) ==
    IF junctionName \notin DOMAIN jts THEN <<>>
    ELSE SelectSeq(jts[junctionName].rows,
                   LAMBDA row : row.id # 0 /\ row.parentRowId = parentRowId)

\* the childTable / unionChildTables test of getReferenceCount and getParents
ChildTableMatches(definition, tableName) ==
    \/ definition.childTable = tableName
    \/ \E i \in 1..Len(definition.unionChildTables) :
          definition.unionChildTables[i] = tableName

\* JunctionManager::getReferenceCount
RECURSIVE ReferenceCountLoop(_, _, _, _)
ReferenceCountLoop(jts, names, tableName, rowId) ==
    IF names = <<>> THEN 0
    ELSE LET tableData == jts[Head(names)]
             here == IF ChildTableMatches(tableData.definition, tableName)
                     THEN Cardinality({i \in 1..Len(tableData.rows) :
                                          /\ tableData.rows[i].id # 0
                                          /\ tableData.rows[i].childRowId = rowId})
                     ELSE 0
         IN here + ReferenceCountLoop(jts, Tail(names), tableName, rowId)

getReferenceCount(jts, tableName, rowId) ==
    ReferenceCountLoop(jts, SortedBy(JunctionOrder, DOMAIN jts), tableName, rowId)

\* deleteWithCascade step 1, inner loop: the children of one junction table
\* that are to be checked, each with the table it belongs to
RECURSIVE ChildrenToCheck(_, _)
ChildrenToCheck(definition, children) ==
    IF children = <<>> THEN <<>>
    ELSE LET child == Head(children)
             childTable == IF definition.relationType \in {"UNION", "VECTOR_UNION"}
                           THEN (IF child.unionType = None THEN "" ELSE child.unionType)
                           ELSE definition.childTable
         IN (IF childTable # "" THEN <<<<childTable, child.childRowId>>>> ELSE <<>>)
            \o ChildrenToCheck(definition, Tail(children))

\* deleteWithCascade step 1: every junction table whose parent is tableName
RECURSIVE CollectAndRemove(_, _, _, _, _)
CollectAndRemove(jts, names, tableName, rowId, childrenToCheck) ==
    IF names = <<>> THEN [jts |-> jts, childrenToCheck |-> childrenToCheck]
    ELSE LET jName == Head(names)
             definition == jts[jName].definition
         IN IF definition.parentTable = tableName
            THEN CollectAndRemove(
                     removeByParent(jts, jName, rowId), Tail(names), tableName, rowId,
                     childrenToCheck
                         \o ChildrenToCheck(definition,
                                            getChildrenByParent(jts, jName, rowId)))
            ELSE CollectAndRemove(jts, Tail(names), tableName, rowId, childrenToCheck)

\* JunctionManager::deleteWithCascade on [junctionTables, deletedRowIds]
RECURSIVE deleteWithCascade(_, _, _)
RECURSIVE CascadeLoop(_, _)
deleteWithCascade(jm, tableName, rowId) ==
    LET r == CollectAndRemove(jm.junctionTables,
                              SortedBy(JunctionOrder, DOMAIN jm.junctionTables),
                              tableName, rowId, <<>>)
    IN CascadeLoop([junctionTables |-> r.jts,
                    deletedRowIds |-> jm.deletedRowIds \cup {rowId}],
                   r.childrenToCheck)

\* deleteWithCascade step 3: orphaned children are deleted in turn
CascadeLoop(jm, childrenToCheck) ==
    IF childrenToCheck = <<>> THEN jm
    ELSE LET childTable == Head(childrenToCheck)[1]
             childRowId == Head(childrenToCheck)[2]
         IN IF getReferenceCount(jm.junctionTables, childTable, childRowId) = 0
            THEN CascadeLoop(deleteWithCascade(jm, childTable, childRowId),
                             Tail(childrenToCheck))
            ELSE CascadeLoop(jm, Tail(childrenToCheck))

\* input domains of the junction manager: rows 1 and 2 belong to table A,
\* row 3 to table B
MaxJunctionRows == 3
RowIds == 1..3
TableOfRow(rowId) == IF rowId <= 2 THEN "A" ELSE "B"
JunctionTableNames == {"A", "B"}

----------------------------------------------------------------------------
(* Idle parts: each specification leaves the other components untouched    *)

CmpIdle ==
    /\ cmpA = Null /\ cmpB = Null /\ cmpC = Null
    /\ cmpAB = "none" /\ cmpBA = "none" /\ cmpBC = "none" /\ cmpAC = "none"

SqlIdle ==
    /\ sqlTable = <<>> /\ sqlEntryCount_ = 0 /\ sqlInserted = <<>>
    /\ sqlResult = <<>> /\ sqlThrew = FALSE

BTreeIdle ==
    /\ order_ = 4 /\ nodes_ = NewTree(4).nodes_ /\ rootId_ = 1
    /\ nextNodeId_ = 2 /\ entryCount_ = 0 /\ inserted = <<>>
    /\ qArgs = <<>> /\ qResult = <<>>
    /\ SqlIdle

Db == [data_ |-> data_, writeOffset_ |-> writeOffset_, recordCount_ |-> recordCount_,
       nextSequence_ |-> nextSequence_, sequenceToOffset_ |-> sequenceToOffset_,
       offsetToSequence_ |-> offsetToSequence_, fileIdToRecords_ |-> fileIdToRecords_,
       indexes |-> indexes, callbackLog |-> callbackLog]

DbIs(db) ==
    /\ data_ = db.data_
    /\ writeOffset_ = db.writeOffset_
    /\ recordCount_ = db.recordCount_
    /\ nextSequence_ = db.nextSequence_
    /\ sequenceToOffset_ = db.sequenceToOffset_
    /\ offsetToSequence_ = db.offsetToSequence_
    /\ fileIdToRecords_ = db.fileIdToRecords_
    /\ indexes = db.indexes
    /\ callbackLog = db.callbackLog

SetDb(db) ==
    /\ data_' = db.data_
    /\ writeOffset_' = db.writeOffset_
    /\ recordCount_' = db.recordCount_
    /\ nextSequence_' = db.nextSequence_
    /\ sequenceToOffset_' = db.sequenceToOffset_
    /\ offsetToSequence_' = db.offsetToSequence_
    /\ fileIdToRecords_' = db.fileIdToRecords_
    /\ indexes' = db.indexes
    /\ callbackLog' = db.callbackLog

NoReturn ==
    /\ lastInput = <<>> /\ lastConsumed = 0 /\ lastRecords = 0
    /\ lastSequence = 0 /\ lastError = "" /\ prevDb = FreshDb

NoReplica == exported = <<>> /\ replica = FreshDb /\ replicaValid = FALSE

DropReplica == exported' = <<>> /\ replica' = FreshDb /\ replicaValid' = FALSE

NoAnalysis == <<>>

AnalyzerIdle ==
    /\ schemaContents = <<>> /\ structs = {} /\ tables = <<>> /\ unions = <<>>
    /\ importGraph = <<>> /\ analysis = NoAnalysis /\ prevAnalysis = NoAnalysis
    /\ addCalls = 0 /\ analyzeCalls = 0

JunctionIdle ==
    /\ junctionTables = <<>> /\ deletedRowIds = {} /\ jmArgs = <<>> /\ prevLive = {}

\* number of init() calls made on the client
NumInitCalls == 3
InitCallIds == 1..NumInitCalls
NoWorker == 0

\* new FlatSQLClient(): no worker, nothing pending, no init() call made
ClientIdle ==
    /\ worker = NoWorker /\ ready = FALSE /\ pending = {} /\ nextId = 1
    /\ initCalls = [c \in InitCallIds |-> [at |-> "notCalled", id |-> 0]]
    /\ readyResolved = {} /\ workers = <<>> /\ responses = {} /\ answered = {}

ExtIdle == AnalyzerIdle /\ JunctionIdle /\ keyType_ = "Int32" /\ ClientIdle

SourceIdle == stream = <<>> /\ pos = 0 /\ buffer = <<>> /\ totalRecords = 0 /\ feeds = 0

DbIdle == DbIs(FreshDb) /\ NoReturn /\ NoReplica /\ SourceIdle

----------------------------------------------------------------------------
(* SpecCmp: compareValues on a triple of Values                            *)

InitCmp ==
    /\ cmpA \in CmpValues /\ cmpB \in CmpValues /\ cmpC \in CmpValues
    /\ cmpAB = "none" /\ cmpBA = "none" /\ cmpBC = "none" /\ cmpAC = "none"
    /\ BTreeIdle /\ DbIdle
    /\ ExtIdle
    /\ lastOp = "init"

Compare ==
    /\ lastOp = "init"
    /\ cmpAB' \in compareValuesOutcomes(cmpA, cmpB)
    /\ cmpBA' \in compareValuesOutcomes(cmpB, cmpA)
    /\ cmpBC' \in compareValuesOutcomes(cmpB, cmpC)
    /\ cmpAC' \in compareValuesOutcomes(cmpA, cmpC)
    /\ UNCHANGED extVars
    /\ lastOp' = "compare"
    /\ UNCHANGED <<sqlVars, cmpA, cmpB, cmpC, btVars, qVars, dbVars, retVars, repVars, srcVars>>

NextCmp == Compare

SpecCmp == InitCmp /\ [][NextCmp]_vars

----------------------------------------------------------------------------
(* SpecBTree: one index under insert and clear, and its queries            *)

Tree == [order_ |-> order_, nodes_ |-> nodes_, rootId_ |-> rootId_,
         nextNodeId_ |-> nextNodeId_, entryCount_ |-> entryCount_]

SetTree(t) ==
    /\ order_' = t.order_
    /\ nodes_' = t.nodes_
    /\ rootId_' = t.rootId_
    /\ nextNodeId_' = t.nextNodeId_
    /\ entryCount_' = t.entryCount_

InitBTree ==
    /\ order_ \in Orders
    /\ nodes_ = NewTree(order_).nodes_
    /\ rootId_ = NewTree(order_).rootId_
    /\ nextNodeId_ = NewTree(order_).nextNodeId_
    /\ entryCount_ = 0
    /\ inserted = <<>>
    /\ qArgs = <<>> /\ qResult = <<>>
    /\ SqlIdle
    /\ CmpIdle /\ DbIdle
    /\ ExtIdle
    /\ lastOp = "init"

\* insert(key, dataOffset, dataLength, sequence); the caller numbers its
\* entries 1, 2, ... as the store numbers its records
BTInsert(key) ==
    /\ Len(inserted) < MaxInserts
    /\ LET sequence == Len(inserted) + 1
           dataOffset == 16 * (sequence - 1)
           dataLength == 12
       IN /\ SetTree(BTreeInsert(Tree, key, dataOffset, dataLength, sequence))
          /\ inserted' = Append(inserted, MkEntry(key, dataOffset, dataLength, sequence))
    /\ qArgs' = <<key>> /\ qResult' = <<>>
    /\ UNCHANGED extVars
    /\ lastOp' = "insert"
    /\ UNCHANGED <<sqlVars, cmpVars, dbVars, retVars, repVars, srcVars>>

BTClear ==
    /\ inserted # <<>>
    /\ SetTree(BTreeClear(Tree))
    /\ inserted' = <<>>
    /\ qArgs' = <<>> /\ qResult' = <<>>
    /\ UNCHANGED extVars
    /\ lastOp' = "clear"
    /\ UNCHANGED <<sqlVars, cmpVars, dbVars, retVars, repVars, srcVars>>

BTSearch(key) ==
    /\ qArgs' = <<key>>
    /\ qResult' = BTreeSearch(Tree, key)
    /\ UNCHANGED extVars
    /\ lastOp' = "search"
    /\ UNCHANGED <<sqlVars, cmpVars, btVars, dbVars, retVars, repVars, srcVars>>

BTRange(minKey, maxKey) ==
    /\ qArgs' = <<minKey, maxKey>>
    /\ qResult' = BTreeRange(Tree, minKey, maxKey)
    /\ UNCHANGED extVars
    /\ lastOp' = "range"
    /\ UNCHANGED <<sqlVars, cmpVars, btVars, dbVars, retVars, repVars, srcVars>>

BTAll ==
    /\ qArgs' = <<>>
    /\ qResult' = BTreeAll(Tree)
    /\ UNCHANGED extVars
    /\ lastOp' = "all"
    /\ UNCHANGED <<sqlVars, cmpVars, btVars, dbVars, retVars, repVars, srcVars>>

NextBTree ==
    \/ \E key \in BTreeKeys : BTInsert(key)
    \/ BTClear
    \/ \E key \in BTreeKeys : BTSearch(key)
    \/ \E minKey \in BTreeKeys, maxKey \in BTreeKeys : BTRange(minKey, maxKey)
    \/ BTAll

SpecBTree == InitBTree /\ [][NextBTree]_vars

----------------------------------------------------------------------------
(* SpecIndex: a BTree and a SqliteIndex of the same Int32 key type receive *)
(* the same insert and clear calls and answer the same queries             *)

Sql == [table |-> sqlTable, entryCount_ |-> sqlEntryCount_]

SetSql(s) ==
    /\ sqlTable' = s.table
    /\ sqlEntryCount_' = s.entryCount_

IxInsert(key) ==
    /\ Len(inserted) < MaxInserts
    /\ LET sequence == Len(inserted) + 1
           dataOffset == 16 * (sequence - 1)
           dataLength == 12
           r == SqliteInsert(Sql, key, dataOffset, dataLength, sequence)
       IN /\ SetTree(BTreeInsert(Tree, key, dataOffset, dataLength, sequence))
          /\ inserted' = Append(inserted, MkEntry(key, dataOffset, dataLength, sequence))
          /\ SetSql(r.index)
          /\ sqlThrew' = r.threw
          /\ sqlInserted' = IF r.threw THEN sqlInserted
                            ELSE Append(sqlInserted,
                                        MkEntry(key, dataOffset, dataLength, sequence))
    /\ qArgs' = <<key>> /\ qResult' = <<>> /\ sqlResult' = <<>>
    /\ UNCHANGED extVars
    /\ lastOp' = "insert"
    /\ UNCHANGED <<cmpVars, dbVars, retVars, repVars, srcVars>>

IxClear ==
    /\ inserted # <<>>
    /\ SetTree(BTreeClear(Tree))
    /\ SetSql(SqliteClear(Sql))
    /\ inserted' = <<>> /\ sqlInserted' = <<>>
    /\ qArgs' = <<>> /\ qResult' = <<>> /\ sqlResult' = <<>>
    /\ sqlThrew' = FALSE
    /\ UNCHANGED extVars
    /\ lastOp' = "clear"
    /\ UNCHANGED <<cmpVars, dbVars, retVars, repVars, srcVars>>

IxSearch(key) ==
    /\ qArgs' = <<key>>
    /\ qResult' = BTreeSearch(Tree, key)
    /\ sqlResult' = SqliteSearch(Sql, key)
    /\ sqlThrew' = FALSE
    /\ UNCHANGED extVars
    /\ lastOp' = "search"
    /\ UNCHANGED <<cmpVars, btVars, sqlTable, sqlEntryCount_, sqlInserted,
                   dbVars, retVars, repVars, srcVars>>

IxSearchFirst(key) ==
    /\ qArgs' = <<key>>
    /\ qResult' \in BTreeSearchFirst(Tree, key)
    /\ sqlResult' = SqliteSearchFirst(Sql, key)
    /\ sqlThrew' = FALSE
    /\ UNCHANGED extVars
    /\ lastOp' = "searchFirst"
    /\ UNCHANGED <<cmpVars, btVars, sqlTable, sqlEntryCount_, sqlInserted,
                   dbVars, retVars, repVars, srcVars>>

IxRange(minKey, maxKey) ==
    /\ qArgs' = <<minKey, maxKey>>
    /\ qResult' = BTreeRange(Tree, minKey, maxKey)
    /\ sqlResult' = SqliteRange(Sql, minKey, maxKey)
    /\ sqlThrew' = FALSE
    /\ UNCHANGED extVars
    /\ lastOp' = "range"
    /\ UNCHANGED <<cmpVars, btVars, sqlTable, sqlEntryCount_, sqlInserted,
                   dbVars, retVars, repVars, srcVars>>

IxAll ==
    /\ qArgs' = <<>>
    /\ qResult' = BTreeAll(Tree)
    /\ sqlResult' = SqliteAll(Sql)
    /\ sqlThrew' = FALSE
    /\ UNCHANGED extVars
    /\ lastOp' = "all"
    /\ UNCHANGED <<cmpVars, btVars, sqlTable, sqlEntryCount_, sqlInserted,
                   dbVars, retVars, repVars, srcVars>>

NextIndex ==
    \/ \E key \in BTreeKeys : IxInsert(key)
    \/ IxClear
    \/ \E key \in BTreeKeys : IxSearch(key)
    \/ \E key \in BTreeKeys : IxSearchFirst(key)
    \/ \E minKey \in BTreeKeys, maxKey \in BTreeKeys : IxRange(minKey, maxKey)
    \/ IxAll

SpecIndex == InitBTree /\ [][NextIndex]_vars

----------------------------------------------------------------------------
(* Spec: the database under its ingest APIs, loadAndRebuild and export     *)

Init ==
    /\ DbIs(FreshDb) /\ NoReturn /\ NoReplica /\ SourceIdle
    /\ CmpIdle /\ BTreeIdle
    /\ ExtIdle
    /\ lastOp = "init"

\* db.ingest(bytes, &recordsProcessed)
Ingest(bytes) ==
    /\ LET r == ingest(Db, bytes)
       IN /\ SetDb(r.db)
          /\ lastConsumed' = r.bytesConsumed
          /\ lastRecords' = r.recordsProcessed
    /\ lastInput' = bytes
    /\ lastSequence' = 0 /\ lastError' = ""
    /\ prevDb' = Db
    /\ DropReplica
    /\ UNCHANGED extVars
    /\ lastOp' = "ingest"
    /\ UNCHANGED <<sqlVars, cmpVars, btVars, qVars, srcVars>>

\* store.ingestOne(sizePrefixedData)
IngestOne(bytes) ==
    /\ recordCount_ < MaxRecords
    /\ LET r == ingestOne(Db, bytes)
       IN /\ SetDb(r.db)
          /\ lastSequence' = r.sequence
          /\ lastError' = r.error
    /\ lastInput' = bytes
    /\ lastConsumed' = 0 /\ lastRecords' = 0
    /\ prevDb' = Db
    /\ DropReplica
    /\ UNCHANGED extVars
    /\ lastOp' = "ingestOne"
    /\ UNCHANGED <<sqlVars, cmpVars, btVars, qVars, srcVars>>

\* store.ingestFlatBuffer(payload), which is db.ingestOne(payload)
IngestFlatBuffer(payload) ==
    /\ recordCount_ < MaxRecords
    /\ SetDb(ingestFlatBuffer(Db, payload))
    /\ lastSequence' = nextSequence_
    /\ lastError' = ""
    /\ lastInput' = payload
    /\ lastConsumed' = 0 /\ lastRecords' = 0
    /\ prevDb' = Db
    /\ DropReplica
    /\ UNCHANGED extVars
    /\ lastOp' = "ingestFlatBuffer"
    /\ UNCHANGED <<sqlVars, cmpVars, btVars, qVars, srcVars>>

\* what the history keeps of the database that loadAndRebuild drops: its
\* record count and the entry counts of its indexes
Dropped(db) ==
    [FreshDb EXCEPT !.recordCount_ = db.recordCount_,
                    !.indexes = [tbl \in Tables |->
                        [NewTree(DbOrder) EXCEPT !.entryCount_ = db.indexes[tbl].entryCount_]]]

\* db.loadAndRebuild(blob) on the database itself
LoadAndRebuild(blob) ==
    /\ SetDb(loadAndRebuild(Db, blob))
    /\ lastInput' = blob
    /\ lastConsumed' = 0 /\ lastRecords' = 0
    /\ lastSequence' = 0 /\ lastError' = ""
    /\ prevDb' = Dropped(Db)
    /\ DropReplica
    /\ UNCHANGED extVars
    /\ lastOp' = "loadAndRebuild"
    /\ UNCHANGED <<sqlVars, cmpVars, btVars, qVars, srcVars>>

\* exported = db.exportData(); a fresh database with the same schema,
\* registrations and extractor then loads it
ExportReload ==
    /\ exported' = exportData(Db)
    /\ replica' = loadAndRebuild(FreshDb, exportData(Db))
    /\ replicaValid' = TRUE
    /\ UNCHANGED extVars
    /\ lastOp' = "exportReload"
    /\ UNCHANGED <<sqlVars, cmpVars, btVars, qVars, dbVars, retVars, srcVars>>

Next ==
    \/ \E ps \in Batches, tail \in Tails :
          /\ recordCount_ + Len(ps) <= MaxRecords
          /\ Ingest(Frames(ps) \o tail)
    \/ \E bytes \in OneInputs : IngestOne(bytes)
    \/ \E payload \in Payloads : IngestFlatBuffer(payload)
    \/ \E blob \in LoadBlobs : LoadAndRebuild(blob)
    \/ ExportReload

Spec == Init /\ [][Next]_vars

----------------------------------------------------------------------------
(* SpecStream: a source feeds a framed stream to ingest in chunks, keeping *)
(* the unconsumed tail (testPartialStreamData, testChunkedStreamIngestion) *)

\* buffer.erase(buffer.begin(), buffer.begin() + consumed)
EraseKeepsAll(buf, consumed) == buf
EraseConsumed(buf, consumed) == SubSeq(buf, consumed + 1, Len(buf))

InitStream ==
    /\ stream \in Streams
    /\ pos = 0 /\ buffer = <<>> /\ totalRecords = 0 /\ feeds = 0
    /\ DbIs(FreshDb) /\ NoReturn /\ NoReplica
    /\ CmpIdle /\ BTreeIdle
    /\ ExtIdle
    /\ lastOp = "init"

\* the next toRead bytes of the stream join the buffer, ingest runs on the
\* whole buffer, and what it consumed leaves the buffer
FeedChunk(toRead) ==
    /\ pos + toRead <= Len(stream)
    /\ LET filled == buffer \o SubSeq(stream, pos + 1, pos + toRead)
           r == ingest(Db, filled)
       IN /\ SetDb(r.db)
          /\ lastInput' = filled
          /\ lastConsumed' = r.bytesConsumed
          /\ lastRecords' = r.recordsProcessed
          /\ totalRecords' = totalRecords + r.recordsProcessed
          /\ buffer' = IF r.bytesConsumed > 0
                       THEN EraseConsumed(filled, r.bytesConsumed) ELSE filled
    /\ pos' = pos + toRead
    /\ feeds' = feeds + 1
    /\ lastSequence' = 0 /\ lastError' = ""
    /\ prevDb' = Db
    /\ UNCHANGED extVars
    /\ lastOp' = "feed"
    /\ UNCHANGED <<sqlVars, cmpVars, btVars, qVars, repVars, stream>>

NextStream == \E toRead \in 1..(Len(stream) - pos) : FeedChunk(toRead)

SpecStream == InitStream /\ [][NextStream]_vars

----------------------------------------------------------------------------
(* SpecCLI: the stdin loop of runCLI (flatsql.cpp).  std::cin.read fills   *)
(* whole chunks until end of input; the last chunk may be shorter.         *)

\* "constexpr size_t CHUNK_SIZE = 64 * 1024", scaled to the frames of the model
CHUNK_SIZE == 16

\* one turn of "while (std::cin.read(chunk, CHUNK_SIZE) || std::cin.gcount() > 0)":
\* the chunk joins buffer and the whole buffer is handed to ingest
CliReadChunk ==
    /\ lastOp \in {"init", "cliRead"}
    /\ pos < Len(stream)
    /\ LET bytesRead == Min(CHUNK_SIZE, Len(stream) - pos)
           filled == buffer \o SubSeq(stream, pos + 1, pos + bytesRead)
           r == ingest(Db, filled)
       IN /\ SetDb(r.db)
          /\ buffer' = filled
          /\ pos' = pos + bytesRead
          /\ lastInput' = filled
          /\ lastConsumed' = r.bytesConsumed
          /\ lastRecords' = r.recordsProcessed
          /\ totalRecords' = totalRecords + r.recordsProcessed
    /\ feeds' = feeds + 1
    /\ lastSequence' = 0 /\ lastError' = ""
    /\ prevDb' = Db
    /\ UNCHANGED extVars
    /\ lastOp' = "cliRead"
    /\ UNCHANGED <<sqlVars, cmpVars, btVars, qVars, repVars, stream>>

\* end of input: "if (!buffer.empty()) db.ingest(buffer.data(), buffer.size())"
CliFinalIngest ==
    /\ lastOp \in {"init", "cliRead"}
    /\ pos = Len(stream)
    /\ LET r == IF buffer # <<>> THEN ingest(Db, buffer)
                ELSE [db |-> Db, bytesConsumed |-> 0, recordsProcessed |-> 0]
       IN /\ SetDb(r.db)
          /\ lastConsumed' = r.bytesConsumed
          /\ lastRecords' = r.recordsProcessed
          /\ totalRecords' = totalRecords + r.recordsProcessed
    /\ lastInput' = buffer
    /\ lastSequence' = 0 /\ lastError' = ""
    /\ prevDb' = Db
    /\ UNCHANGED extVars
    /\ lastOp' = "cliDone"
    /\ UNCHANGED <<sqlVars, cmpVars, btVars, qVars, repVars, stream, pos, buffer, feeds>>

NextCLI == CliReadChunk \/ CliFinalIngest

SpecCLI == InitStream /\ [][NextCLI]_vars

----------------------------------------------------------------------------
(* SpecQuery: the direct-access operations of the database on declared and *)
(* undeclared table names, between ingests                                 *)

\* a table name the schema does not declare
NonExistentTable == "NonExistentTable"

TableNames == Tables \cup {NonExistentTable}

\* db.findByIndex(tableName, column, key): the records of the matching
\* entries; an undeclared table gives an empty result
dbFindByIndex(db, tbl, key) ==
    IF tbl \in Tables THEN [error |-> "", result |-> findByIndex(db, tbl, key)]
    ELSE [error |-> "", result |-> <<>>]

\* db.iterateAll(tableName, callback): the number of records visited; an
\* undeclared table gives 0
dbIterateAll(db, tbl) ==
    IF tbl \in Tables THEN [error |-> "", result |-> Len(scan(db, FileIdOf(tbl)))]
    ELSE [error |-> "", result |-> 0]

\* db.findOneByIndex(tableName, column, key, record): the first match of the
\* index, materialized through the log; TableNotFound on an undeclared table
dbFindOneByIndex(db, tbl, key) ==
    IF tbl \in Tables
    THEN {[error |-> "",
           result |-> IF f.found THEN <<readRecord(db, f.entry.sequence)>> ELSE <<>>]
          : f \in BTreeSearchFirst(db.indexes[tbl], key)}
    ELSE {[error |-> "TableNotFound", result |-> <<>>]}

\* db.findRawByIndex(tableName, column, key, &len, &seq): the payload, length
\* and sequence of the first match; TableNotFound on an undeclared table
dbFindRawByIndex(db, tbl, key) ==
    IF tbl \in Tables
    THEN {[error |-> "",
           result |-> IF f.found
                      THEN <<[data |-> readRecord(db, f.entry.sequence).data,
                              length |-> f.entry.dataLength,
                              sequence |-> f.entry.sequence]>>
                      ELSE <<>>]
          : f \in BTreeSearchFirst(db.indexes[tbl], key)}
    ELSE {[error |-> "TableNotFound", result |-> <<>>]}

\* a direct-access call: it returns r and changes nothing of the database
Query(op, tbl, key, r) ==
    /\ qArgs' = <<op, tbl, key>>
    /\ qResult' = r.result
    /\ lastError' = r.error
    /\ prevDb' = Db
    /\ UNCHANGED extVars
    /\ lastOp' = op
    /\ UNCHANGED <<sqlVars, cmpVars, btVars, dbVars, lastInput, lastConsumed,
                   lastRecords, lastSequence, repVars, srcVars>>

FindByIndex(tbl, key) == Query("findByIndex", tbl, key, dbFindByIndex(Db, tbl, key))

FindOneByIndex(tbl, key) ==
    \E r \in dbFindOneByIndex(Db, tbl, key) : Query("findOneByIndex", tbl, key, r)

FindRawByIndex(tbl, key) ==
    \E r \in dbFindRawByIndex(Db, tbl, key) : Query("findRawByIndex", tbl, key, r)

IterateAll(tbl) == Query("iterateAll", tbl, Null, dbIterateAll(Db, tbl))

NextQuery ==
    \/ \E payload \in Payloads : IngestFlatBuffer(payload)
    \/ \E tbl \in TableNames, key \in IndexKeys : FindByIndex(tbl, key)
    \/ \E tbl \in TableNames, key \in IndexKeys : FindOneByIndex(tbl, key)
    \/ \E tbl \in TableNames, key \in IndexKeys : FindRawByIndex(tbl, key)
    \/ \E tbl \in TableNames : IterateAll(tbl)

SpecQuery == Init /\ [][NextQuery]_vars

----------------------------------------------------------------------------
(* SpecGraph and SpecAnalyzer: addSchema and analyze on one SchemaAnalyzer, *)
(* with contents that vary the include graph (SpecGraph) or the type        *)
(* definitions (SpecAnalyzer)                                               *)

Impl == [schemaContents |-> schemaContents, structs |-> structs, tables |-> tables,
         unions |-> unions, importGraph |-> importGraph]

InitAnalyzer ==
    /\ CmpIdle /\ BTreeIdle /\ DbIdle
    /\ ExtIdle
    /\ lastOp = "init"

\* analyzer.addSchema(filePath, content)
AddSchema(filePath, content) ==
    /\ addCalls < MaxAdds
    /\ schemaContents' = MapPut(schemaContents, filePath, content)
    /\ addCalls' = addCalls + 1
    /\ lastOp' = "addSchema"
    /\ UNCHANGED <<structs, tables, unions, importGraph, analysis, prevAnalysis,
                   analyzeCalls, coreVars, notAnVars>>

\* analyzer.analyze()
Analyze ==
    /\ analyzeCalls < MaxAnalyzes
    /\ LET r == analyze(Impl)
       IN /\ structs' = r.impl.structs
          /\ tables' = r.impl.tables
          /\ unions' = r.impl.unions
          /\ importGraph' = r.impl.importGraph
          /\ analysis' = r.result
    /\ prevAnalysis' = IF lastOp = "analyze" THEN analysis ELSE NoAnalysis
    /\ analyzeCalls' = analyzeCalls + 1
    /\ lastOp' = "analyze"
    /\ UNCHANGED <<schemaContents, addCalls, coreVars, notAnVars>>

NextGraph ==
    \/ \E filePath \in FileSet, content \in GraphContents : AddSchema(filePath, content)
    \/ Analyze

SpecGraph == InitAnalyzer /\ [][NextGraph]_vars

NextAnalyzer ==
    \/ \E filePath \in TypedFiles, content \in TypedContents :
          AddSchema(filePath, content)
    \/ Analyze

SpecAnalyzer == InitAnalyzer /\ [][NextAnalyzer]_vars

----------------------------------------------------------------------------
(* SpecJunction: one JunctionManager; initialize, the junction rows that    *)
(* insertWithRelations records, and deleteWithCascade                       *)

Jm == [junctionTables |-> junctionTables, deletedRowIds |-> deletedRowIds]

\* the live rows of every junction table
LiveRows(jts) ==
    UNION {{[junction |-> jName, row |-> jts[jName].rows[i]] :
               i \in {k \in 1..Len(jts[jName].rows) : jts[jName].rows[k].id # 0}} :
           jName \in DOMAIN jts}

RECURSIVE TotalRowsLoop(_, _)
TotalRowsLoop(jts, names) ==
    IF names = <<>> THEN 0
    ELSE Len(jts[Head(names)].rows) + TotalRowsLoop(jts, Tail(names))

\* the number of rows, live or marked, in the rows vectors
TotalRows(jts) == TotalRowsLoop(jts, SortedBy(JunctionOrder, DOMAIN jts))

\* junctionMgr.initialize(analysis)
JmInitialize ==
    /\ junctionTables' = initialize(junctionTables, JunctionDefs)
    /\ prevLive' = {}
    /\ jmArgs' = <<>>
    /\ lastOp' = "initialize"
    /\ UNCHANGED <<deletedRowIds, coreVars, notJmVars>>

\* insertWithRelations, the junction row recorded for one extracted child:
\* parentRowId and childRowId are the sequences ingestOne returned for them
AddJunctionRow(junctionName, parentRowId, childRowId, unionType) ==
    /\ junctionName \in DOMAIN junctionTables
    /\ LET definition == junctionTables[junctionName].definition
           isUnion == definition.relationType \in {"UNION", "VECTOR_UNION"}
           isVector == definition.relationType \in {"VECTOR_TABLE", "VECTOR_UNION"}
       IN /\ TableOfRow(parentRowId) = definition.parentTable
          /\ ChildTableMatches(definition, TableOfRow(childRowId))
          /\ isUnion => unionType \in {None, TableOfRow(childRowId)}
          /\ ~isUnion => unionType = None
          /\ TotalRows(junctionTables) < MaxJunctionRows
          /\ junctionTables' = addJunctionRow(junctionTables, junctionName, parentRowId,
                                              childRowId,
                                              IF isVector THEN 0 ELSE None, unionType)
    /\ prevLive' = {}
    /\ jmArgs' = <<>>
    /\ lastOp' = "insertWithRelations"
    /\ UNCHANGED <<deletedRowIds, coreVars, notJmVars>>

\* junctionMgr.deleteWithCascade(tableName, rowId)
DeleteWithCascade(tableName, rowId) ==
    /\ LET jm == deleteWithCascade(Jm, tableName, rowId)
       IN /\ junctionTables' = jm.junctionTables
          /\ deletedRowIds' = jm.deletedRowIds
    /\ prevLive' = LiveRows(junctionTables)
    /\ jmArgs' = <<tableName, rowId>>
    /\ lastOp' = "deleteWithCascade"
    /\ UNCHANGED <<coreVars, notJmVars>>

NextJunction ==
    \/ JmInitialize
    \/ \E junctionName \in SeqToSetOf(JunctionOrder), parentRowId \in RowIds,
          childRowId \in RowIds, unionType \in {None} \cup JunctionTableNames :
          AddJunctionRow(junctionName, parentRowId, childRowId, unionType)
    \/ \E tableName \in JunctionTableNames, rowId \in RowIds :
          DeleteWithCascade(tableName, rowId)

SpecJunction == InitAnalyzer /\ [][NextJunction]_vars

----------------------------------------------------------------------------
(* SpecUInt32: one SqliteIndex of key type UInt32                           *)

\* 0, 1, 2^31 - 1, 2^31 and 2^32 - 1
UInt32Keys == {UInt32V(0, 0), UInt32V(0, 1), UInt32V(0, INT_MAX),
               UInt32V(1, 0), UInt32V(1, INT_MAX)}

MaxU32Inserts == 3

InitUInt32 ==
    /\ CmpIdle /\ BTreeIdle /\ DbIdle
    /\ AnalyzerIdle /\ JunctionIdle /\ ClientIdle
    /\ keyType_ = "UInt32"
    /\ lastOp = "init"

\* index.insert(key, dataOffset, dataLength, sequence)
U32Insert(key) ==
    /\ Len(sqlInserted) < MaxU32Inserts
    /\ LET sequence == Len(sqlInserted) + 1
           dataOffset == 16 * (sequence - 1)
           dataLength == 12
           r == SqliteInsert(Sql, key, dataOffset, dataLength, sequence)
       IN /\ SetSql(r.index)
          /\ sqlThrew' = r.threw
          /\ sqlInserted' = IF r.threw THEN sqlInserted
                            ELSE Append(sqlInserted,
                                        MkEntry(key, dataOffset, dataLength, sequence))
    /\ qArgs' = <<key>> /\ sqlResult' = <<>>
    /\ lastOp' = "insert"
    /\ UNCHANGED <<qResult, keyType_, notSqlVars>>

\* index.search(key)
U32Search(key) ==
    /\ qArgs' = <<key>>
    /\ sqlResult' = SqliteSearch(Sql, key)
    /\ sqlThrew' = FALSE
    /\ lastOp' = "search"
    /\ UNCHANGED <<sqlTable, sqlEntryCount_, sqlInserted, qResult, keyType_, notSqlVars>>

\* index.range(minKey, maxKey)
U32Range(minKey, maxKey) ==
    /\ qArgs' = <<minKey, maxKey>>
    /\ sqlResult' = SqliteRange(Sql, minKey, maxKey)
    /\ sqlThrew' = FALSE
    /\ lastOp' = "range"
    /\ UNCHANGED <<sqlTable, sqlEntryCount_, sqlInserted, qResult, keyType_, notSqlVars>>

\* index.all()
U32All ==
    /\ qArgs' = <<>>
    /\ sqlResult' = SqliteAll(Sql)
    /\ sqlThrew' = FALSE
    /\ lastOp' = "all"
    /\ UNCHANGED <<sqlTable, sqlEntryCount_, sqlInserted, qResult, keyType_, notSqlVars>>

NextUInt32 ==
    \/ \E key \in UInt32Keys : U32Insert(key)
    \/ \E key \in UInt32Keys : U32Search(key)
    \/ \E minKey \in UInt32Keys, maxKey \in UInt32Keys : U32Range(minKey, maxKey)
    \/ U32All

SpecUInt32 == InitUInt32 /\ [][NextUInt32]_vars

----------------------------------------------------------------------------
(* SpecClient: init() calls on one FlatSQLClient.  Each action is one run   *)
(* of the event loop: the part of init() between two awaits, a worker       *)
(* finishing its start-up, or the delivery of one message.  A worker is     *)
(* named by the init() call that created it, and so is the readyPromise     *)
(* that call made.                                                          *)

InitClient ==
    /\ CmpIdle /\ BTreeIdle /\ DbIdle
    /\ ExtIdle
    /\ lastOp = "init"

\* init() up to "await createWorker(...)": returns at once when this.worker
\* is set, creates a worker otherwise
InitEnter(c) ==
    /\ initCalls[c].at = "notCalled"
    /\ IF worker # NoWorker
       THEN /\ initCalls' = [initCalls EXCEPT ![c].at = "resolved"]
            /\ UNCHANGED workers
       ELSE /\ initCalls' = [initCalls EXCEPT ![c].at = "createWorker"]
            /\ workers' = MapPut(workers, c, [state |-> "starting", handlers |-> FALSE,
                                              inbox |-> {}])
    /\ lastOp' = "initEnter"
    /\ UNCHANGED <<worker, ready, pending, nextId, readyResolved, responses, answered,
                   notClVars>>

\* init() from the assignment of this.worker to "await this.readyPromise"
InitSetup(c) ==
    /\ initCalls[c].at = "createWorker"
    /\ worker' = c
    /\ workers' = [workers EXCEPT ![c].handlers = TRUE]
    /\ initCalls' = [initCalls EXCEPT ![c].at = "awaitReady"]
    /\ lastOp' = "initSetup"
    /\ UNCHANGED <<ready, pending, nextId, readyResolved, responses, answered, notClVars>>

\* the worker script has run: postMessage({ type: 'ready' })
WorkerStarted(w) ==
    /\ w \in DOMAIN workers
    /\ workers[w].state = "starting"
    /\ workers[w].handlers
    /\ workers' = [workers EXCEPT ![w].state = "running"]
    /\ responses' = responses \cup {[from |-> w, type |-> "ready", id |-> 0]}
    /\ lastOp' = "workerStarted"
    /\ UNCHANGED <<worker, ready, pending, nextId, initCalls, readyResolved, answered,
                   notClVars>>

\* the messages a worker posts: ready, and the reply to request id
WorkerMessages ==
    [from : InitCallIds, type : {"ready"}, id : {0}]
        \cup [from : InitCallIds, type : {"result"}, id : 1..NumInitCalls]

\* handlers.onMessage, on a message of the worker the handlers were set on
OnMessage(data) ==
    /\ data \in responses
    /\ responses' = responses \ {data}
    /\ IF data.type = "ready"
       THEN /\ ready' = TRUE
            /\ readyResolved' = readyResolved \cup {data.from}
            /\ UNCHANGED <<pending, initCalls, answered>>
       ELSE /\ answered' = answered \cup {data.id}
            /\ IF data.id \in pending
               THEN /\ pending' = pending \ {data.id}
                    /\ initCalls' = [c \in InitCallIds |->
                                        IF /\ initCalls[c].at = "awaitInit"
                                           /\ initCalls[c].id = data.id
                                        THEN [initCalls[c] EXCEPT !.at = "resolved"]
                                        ELSE initCalls[c]]
               ELSE UNCHANGED <<pending, initCalls>>
            /\ UNCHANGED <<ready, readyResolved>>
    /\ lastOp' = "onMessage"
    /\ UNCHANGED <<worker, nextId, workers, notClVars>>

\* init() after "await this.readyPromise": this.call('init')
InitCallInit(c) ==
    /\ initCalls[c].at = "awaitReady"
    /\ c \in readyResolved
    /\ worker # NoWorker
    /\ pending' = pending \cup {nextId}
    /\ workers' = [workers EXCEPT ![worker].inbox = @ \cup {nextId}]
    /\ initCalls' = [initCalls EXCEPT ![c] = [at |-> "awaitInit", id |-> nextId]]
    /\ nextId' = nextId + 1
    /\ lastOp' = "callInit"
    /\ UNCHANGED <<worker, ready, readyResolved, responses, answered, notClVars>>

\* the worker's message handler: methods.init and the reply
WorkerHandle(w, id) ==
    /\ w \in DOMAIN workers
    /\ workers[w].state = "running"
    /\ id \in workers[w].inbox
    /\ workers' = [workers EXCEPT ![w].inbox = @ \ {id}]
    /\ responses' = responses \cup {[from |-> w, type |-> "result", id |-> id]}
    /\ lastOp' = "workerHandle"
    /\ UNCHANGED <<worker, ready, pending, nextId, initCalls, readyResolved, answered,
                   notClVars>>

NextClient ==
    \/ \E c \in InitCallIds : InitEnter(c)
    \/ \E c \in InitCallIds : InitSetup(c)
    \/ \E w \in InitCallIds : WorkerStarted(w)
    \/ \E data \in WorkerMessages : OnMessage(data)
    \/ \E c \in InitCallIds : InitCallInit(c)
    \/ \E w \in InitCallIds, id \in 1..NumInitCalls : WorkerHandle(w, id)

SpecClient == InitClient /\ [][NextClient]_vars

----------------------------------------------------------------------------
(* Properties of the log and the database (Spec, SpecStream)               *)

\* the payloads the callback saw, in commit order
CommittedPayloads == [i \in 1..Len(callbackLog) |-> callbackLog[i].payload]

\* C1: the n committed records carry the sequences 1, 2, ..., n in commit
\* order, whichever ingest API committed them, and the single-record APIs
\* return the sequence of the record they committed.
C1_SequencesDense ==
    /\ \A i \in 1..Len(callbackLog) : callbackLog[i].sequence = i
    /\ nextSequence_ = Len(callbackLog) + 1
    /\ DOMAIN sequenceToOffset_ = 1..Len(callbackLog)
    /\ (lastOp \in {"ingestOne", "ingestFlatBuffer"} /\ lastError = "")
          => lastSequence = Len(callbackLog)

\* C1 witness: a batch ingest has committed records 2 and 3 after another
\* call committed record 1
C1_Witness ==
    /\ lastOp = "ingest" /\ lastRecords = 2
    /\ Len(callbackLog) = 3 /\ callbackLog[3].sequence = 3

\* C2: when the source has fed the whole stream, in any chunks, the database
\* is in the state that one ingest call on the whole stream gives: the same
\* records, sequences, offsets, maps, indexes and log bytes, and the same
\* number of records was reported.
C2_ChunkedEqualsWhole ==
    pos = Len(stream) =>
        /\ DbIs(ingest(FreshDb, stream).db)
        /\ totalRecords = ingest(FreshDb, stream).recordsProcessed
        /\ buffer = <<>>

\* C2 witness: a stream of three frames was fed one byte at a time
C2_Witness ==
    /\ pos = Len(stream) /\ feeds = Len(stream)
    /\ recordCount_ = 3 /\ callbackLog[3].sequence = 3

\* the framed bytes of every batch
BatchFrames == [ps \in Batches |-> Frames(ps)]

\* the batches of complete frames that are a prefix of bytes
FramePrefixes(bytes) ==
    {ps \in Batches : Len(BatchFrames[ps]) <= Len(bytes)
                      /\ SubSeq(bytes, 1, Len(BatchFrames[ps])) = BatchFrames[ps]}

\* ps is the maximal prefix of complete frames of bytes
IsMaxFramePrefix(ps, bytes) ==
    /\ ps \in FramePrefixes(bytes)
    /\ \A p \in Payloads : Append(ps, p) \notin FramePrefixes(bytes)

\* C3: ingest consumes exactly the maximal prefix of complete frames and
\* reports their number; an incomplete frame after it is not consumed, raises
\* no error and leaves the log bytes, the next sequence and the maps as the
\* complete frames alone leave them (untouched when there is none).
C3_IngestConsumesCompleteFrames ==
    lastOp = "ingest" =>
        /\ \E ps \in Batches :
              /\ IsMaxFramePrefix(ps, lastInput)
              /\ lastConsumed = Len(BatchFrames[ps])
              /\ lastRecords = Len(ps)
        /\ lastError = ""
        /\ exportData(Db) = exportData(prevDb) \o SubSeq(lastInput, 1, lastConsumed)
        /\ nextSequence_ = prevDb.nextSequence_ + lastRecords
        /\ DbIs(ingest(prevDb, SubSeq(lastInput, 1, lastConsumed)).db)
        /\ (lastRecords = 0 => DbIs(prevDb))

\* C3 witness: an ingest call consumed two frames and left an incomplete
\* third frame unconsumed
C3_Witness ==
    /\ lastOp = "ingest" /\ lastRecords = 2
    /\ lastConsumed < Len(lastInput)
    /\ prevDb.recordCount_ = 1 /\ recordCount_ = 3

C5_ExportReloadIdentity ==
    replicaValid =>
        /\ exported = exportData(Db)
        /\ exportData(replica) = exported
        /\ replica.sequenceToOffset_ = sequenceToOffset_
        /\ replica.offsetToSequence_ = offsetToSequence_
        /\ replica.nextSequence_ = nextSequence_
        /\ \A s \in DOMAIN sequenceToOffset_ : readRecord(replica, s) = readRecord(Db, s)
        /\ \A fileId \in Registered \cup {XXXX, ZeroFileId} :
              scan(replica, fileId) = scan(Db, fileId)
        /\ \A tbl \in Tables, key \in IndexKeys :
              findByIndex(replica, tbl, key) = findByIndex(Db, tbl, key)

\* C5 witness: the exported database holds records of both tables, one of
\* them found through its index, and an unroutable record
C5_Witness ==
    /\ replicaValid /\ recordCount_ = 3
    /\ scan(Db, USER) # <<>> /\ scan(Db, POST) # <<>>
    /\ Len(findByIndex(replica, "User", Int32V(1))) = 1
    /\ \E i \in 1..3 : callbackLog[i].fileId \notin Registered

----------------------------------------------------------------------------
(* Properties of the index (SpecBTree)                                     *)

SeqToSet(s) == {s[i] : i \in 1..Len(s)}

\* every element of s occurs once
NoRepeat(s) == \A i, j \in 1..Len(s) : s[i] = s[j] => i = j

InsertedSet == SeqToSet(inserted)

\* the inserted entries whose key equals k under compareValues
EqualTo(k) == {e \in InsertedSet : compareValues(e.key, k) = 0}

\* the inserted entries with lo <= key <= hi under compareValues
Between(lo, hi) ==
    {e \in InsertedSet : compareValues(e.key, lo) >= 0 /\ compareValues(e.key, hi) <= 0}

\* s is non-decreasing in (key, sequence)
KeySeqOrdered(s) ==
    \A i \in 1..(Len(s) - 1) :
        \/ compareValues(s[i].key, s[i + 1].key) < 0
        \/ /\ compareValues(s[i].key, s[i + 1].key) = 0
           /\ s[i].sequence < s[i + 1].sequence

Height == IF nodes_[rootId_].isLeaf THEN 1
          ELSE IF nodes_[nodes_[rootId_].children[1]].isLeaf THEN 2
          ELSE 3

\* C6: searchAll(k) returns exactly the entries inserted with a key equal to
\* k under compareValues, each once, so as many as there were such inserts.
C6_SearchAllExact ==
    lastOp = "search" =>
        /\ SeqToSet(qResult) = EqualTo(qArgs[1])
        /\ Len(qResult) = Cardinality(EqualTo(qArgs[1]))

C8_ResultsKeySeqOrdered ==
    lastOp \in {"all", "range", "search"} => KeySeqOrdered(qResult)

----------------------------------------------------------------------------
(* Properties of compareValues (SpecCmp)                                   *)

\* C9: compareValues is a total order up to equivalence: the sign of
\* compare(a, b) is opposite to that of compare(b, a), and a <= b and b <= c
\* imply a <= c, for every triple of Values.
C9_TotalOrder ==
    lastOp = "compare" =>
        /\ Sign(cmpAB) = -Sign(cmpBA)
        /\ (cmpAB <= 0 /\ cmpBC <= 0) => cmpAC <= 0

\* C10: compareValues returns one of exactly -1, 0 and 1 for every pair.
C10_ResultInMinusOneZeroOne ==
    lastOp = "compare" => cmpAB \in {-1, 0, 1}

----------------------------------------------------------------------------
(* Properties of routing, visibility and reads (Spec)                      *)

\* the callback invocations of the records routed to table tbl, in order
RoutedTo(tbl) ==
    SelectSeq(callbackLog, LAMBDA r : extractFileId(r.payload) = FileIdOf(tbl))

\* the bucket entry a committed record must have
InfoOf(r) == [offset |-> r.offset, sequence |-> r.sequence]

\* the index entry a routed record must have
EntryOf(r) == MkEntry(extractField(r.payload), r.offset, Len(r.payload), r.sequence)

\* every (file identifier, position) of the buckets
BucketSlots ==
    UNION {{<<f, k>> : k \in 1..Len(fileIdToRecords_[f])} : f \in DOMAIN fileIdToRecords_}

\* C11: every committed record is listed in exactly one bucket, that of its
\* payload bytes [4..8); each bucket is in increasing sequence order; the scan
\* and COUNT of a table give exactly the records whose file identifier is
\* registered for it, in insertion order.
C11_FileIdBuckets ==
    /\ \A i \in 1..Len(callbackLog) :
          LET r == callbackLog[i]
              slots == {p \in BucketSlots : fileIdToRecords_[p[1]][p[2]].sequence = r.sequence}
          IN /\ Len(r.payload) >= 8 => r.fileId = SubSeq(r.payload, 5, 8)
             /\ Cardinality(slots) = 1
             /\ \A p \in slots : p[1] = r.fileId /\ fileIdToRecords_[p[1]][p[2]] = InfoOf(r)
    /\ \A p \in BucketSlots : \E i \in 1..Len(callbackLog) :
          callbackLog[i].sequence = fileIdToRecords_[p[1]][p[2]].sequence
    /\ \A f \in DOMAIN fileIdToRecords_ : \A k \in 1..(Len(fileIdToRecords_[f]) - 1) :
          fileIdToRecords_[f][k].sequence < fileIdToRecords_[f][k + 1].sequence
    /\ \A tbl \in Tables :
          /\ scan(Db, FileIdOf(tbl)) = [k \in 1..Len(RoutedTo(tbl)) |-> InfoOf(RoutedTo(tbl)[k])]
          /\ Len(scan(Db, FileIdOf(tbl))) = Len(RoutedTo(tbl))

\* C11 witness: one stream interleaved records of two file identifiers
C11_Witness ==
    /\ lastOp = "ingest" /\ lastRecords = 2 /\ Len(callbackLog) = 3
    /\ callbackLog[1].fileId = USER /\ callbackLog[2].fileId = POST
    /\ callbackLog[3].fileId = USER
    /\ Len(scan(Db, USER)) = 2

\* the records the last store call committed
NewRecords == SubSeq(callbackLog, Len(prevDb.callbackLog) + 1, Len(callbackLog))

Unroutable(r) == extractFileId(r.payload) \notin Registered

\* C12: an ingest call whose records cannot be routed raises no error, stores
\* each record under the next sequence number, changes no table's rows and
\* no index, and leaves every earlier record readable and found by the same
\* scans and lookups.
C12_UnroutableIsStored ==
    (/\ lastOp \in {"ingest", "ingestOne", "ingestFlatBuffer"}
     /\ NewRecords # <<>>
     /\ \A k \in 1..Len(NewRecords) : Unroutable(NewRecords[k]))
    => /\ lastError = ""
       /\ recordCount_ = prevDb.recordCount_ + Len(NewRecords)
       /\ \A k \in 1..Len(NewRecords) :
             /\ NewRecords[k].sequence = prevDb.nextSequence_ + k - 1
             /\ hasRecord(Db, NewRecords[k].sequence)
             /\ readRecord(Db, NewRecords[k].sequence).data = NewRecords[k].payload
       /\ indexes = prevDb.indexes
       /\ \A tbl \in Tables : scan(Db, FileIdOf(tbl)) = scan(prevDb, FileIdOf(tbl))
       /\ \A s \in DOMAIN prevDb.sequenceToOffset_ : readRecord(Db, s) = readRecord(prevDb, s)
       /\ \A tbl \in Tables, key \in IndexKeys :
             findByIndex(Db, tbl, key) = findByIndex(prevDb, tbl, key)

\* C12 witness: a payload under 8 bytes was ingested after records of both
\* tables, one of which is found through its index
C12_Witness ==
    /\ lastOp = "ingestFlatBuffer" /\ lastInput = PayloadShort
    /\ recordCount_ = 3 /\ lastSequence = 3
    /\ scan(Db, USER) # <<>> /\ scan(Db, POST) # <<>>
    /\ Len(findByIndex(Db, "User", Int32V(1))) = 1

\* C13: in every state a call has left, every committed record of a
\* registered file identifier is in the scan of its table and its entry is in
\* the index of its table.
C13_CommittedIsVisible ==
    \A i \in 1..Len(callbackLog) :
        LET r == callbackLog[i]
        IN r.fileId \in Registered =>
              /\ InfoOf(r) \in SeqToSet(scan(Db, r.fileId))
              /\ EntryOf(r) \in SeqToSet(BTreeAll(indexes[TableOf(r.fileId)]))

\* C13 witness: a batch call has just committed two routed records, one of
\* them with a Null key, after an earlier record
C13_Witness ==
    /\ lastOp = "ingest" /\ lastRecords = 2 /\ Len(callbackLog) = 3
    /\ callbackLog[2].payload = PayloadUserNoKey
    /\ callbackLog[3].payload = PayloadPost1

\* C16: loadAndRebuild(blob) on a database that holds records leaves the log
\* equal to the complete frames of blob, sequences restarting at 1, and in
\* every table and index exactly the records and entries of blob; it raises
\* no error.
C16_LoadAndRebuildClears ==
    lastOp = "loadAndRebuild" =>
        /\ lastError = ""
        /\ \E ps \in Batches :
              /\ IsMaxFramePrefix(ps, lastInput)
              /\ exportData(Db) = BatchFrames[ps]
              /\ CommittedPayloads = ps
        /\ \A i \in 1..Len(callbackLog) : callbackLog[i].sequence = i
        /\ nextSequence_ = Len(callbackLog) + 1
        /\ DOMAIN sequenceToOffset_ = 1..Len(callbackLog)
        /\ recordCount_ = Len(callbackLog)
        /\ \A tbl \in Tables :
              /\ scan(Db, FileIdOf(tbl)) = [k \in 1..Len(RoutedTo(tbl)) |-> InfoOf(RoutedTo(tbl)[k])]
              /\ SeqToSet(BTreeAll(indexes[tbl])) = {EntryOf(r) : r \in SeqToSet(RoutedTo(tbl))}
              /\ Len(BTreeAll(indexes[tbl])) = Len(RoutedTo(tbl))
              /\ indexes[tbl].entryCount_ = Len(RoutedTo(tbl))

\* C16 witness: a database holding three records, some indexed, was rebuilt
\* from a blob of one frame of the other table
C16_Witness ==
    /\ lastOp = "loadAndRebuild"
    /\ prevDb.recordCount_ = 3 /\ prevDb.indexes["User"].entryCount_ >= 2
    /\ lastInput = Frame(PayloadPost1)
    /\ recordCount_ = 1 /\ indexes["User"].entryCount_ = 0

\* sequence values asked of hasRecord
ProbeSequences == 0..(MaxRecords + 2)

\* C17: readRecord(s) of a committed record returns the ingested payload, its
\* file identifier and the sequence s, so reading by the returned sequence
\* gives the same record; hasRecord is true exactly for 1..n.
C17_ReadRoundTrip ==
    /\ \A s \in ProbeSequences : hasRecord(Db, s) <=> s \in 1..Len(callbackLog)
    /\ \A i \in 1..Len(callbackLog) :
          LET rec == readRecord(Db, i)
              r == callbackLog[i]
          IN /\ rec.data = r.payload
             /\ rec.header.sequence = i
             /\ rec.header.fileId = r.fileId
             /\ Len(r.payload) >= 8 => rec.header.fileId = SubSeq(r.payload, 5, 8)
             /\ rec.header.offset = r.offset
             /\ rec.header.length = Len(r.payload)
             /\ readRecord(Db, rec.header.sequence) = rec

\* C17 witness: three records of different lengths are read back, the last
\* one lying in the grown part of the buffer
C17_Witness ==
    /\ recordCount_ = 3
    /\ callbackLog[1].payload = PayloadShort
    /\ callbackLog[2].payload = PayloadPost1
    /\ callbackLog[3].payload = PayloadUser1
    /\ sequenceToOffset_[3] > InitialCapacity

----------------------------------------------------------------------------
(* Properties of the two index back-ends (SpecIndex)                       *)

\* C14: an insert with a Null key succeeds and adds exactly one entry, so
\* after n inserts each back-end holds n entries, the Null-keyed included.
C14_IndexesDense ==
    /\ (lastOp = "insert" /\ qArgs[1] = Null) => ~sqlThrew
    /\ entryCount_ = Len(inserted)
    /\ Len(BTreeAll(Tree)) = Len(inserted)
    /\ sqlEntryCount_ = Len(inserted)
    /\ Len(SqliteAll(Sql)) = Len(inserted)

\* C15: after the same insert and clear calls the BTree and the SqliteIndex
\* give the same search, range and all results, the same searchFirst answer
\* and the same entry count, and an insert succeeds on both or on neither.
C15_BackendsEquivalent ==
    /\ lastOp = "insert" => ~sqlThrew
    /\ sqlEntryCount_ = entryCount_
    /\ lastOp \in {"search", "range", "all"} =>
          /\ SeqToSet(qResult) = SeqToSet(sqlResult)
          /\ Len(qResult) = Len(sqlResult)
    /\ lastOp = "searchFirst" => qResult.found = sqlResult.found

\* C20: getEntryCount() is the number of inserts that succeeded since the
\* index was created or cleared and all() returns each of their entries
\* once; after clear() the count is 0, search, range and all return nothing
\* and the index is as newly created.
C20_CountMatchesInserts ==
    /\ entryCount_ = Len(inserted)
    /\ SeqToSet(BTreeAll(Tree)) = InsertedSet
    /\ Len(BTreeAll(Tree)) = Len(inserted)
    /\ sqlEntryCount_ = Len(sqlInserted)
    /\ SeqToSet(SqliteAll(Sql)) = SeqToSet(sqlInserted)
    /\ Len(SqliteAll(Sql)) = Len(sqlInserted)
    /\ lastOp = "clear" =>
          /\ entryCount_ = 0 /\ sqlEntryCount_ = 0
          /\ BTreeAll(Tree) = <<>> /\ SqliteAll(Sql) = <<>>
          /\ \A key \in BTreeKeys :
                /\ BTreeSearch(Tree, key) = <<>> /\ SqliteSearch(Sql, key) = <<>>
                /\ \A maxKey \in BTreeKeys :
                      /\ BTreeRange(Tree, key, maxKey) = <<>>
                      /\ SqliteRange(Sql, key, maxKey) = <<>>
          /\ Tree = NewTree(order_)
          /\ Sql = NewSqliteIndex

\* C20 witness: a full scan of a tree of height 3 after an insert that the
\* SqliteIndex refused
C20_Witness ==
    /\ lastOp = "all" /\ Height = 3
    /\ Len(qResult) = 6
    /\ Len(sqlResult) = 5

----------------------------------------------------------------------------
(* Properties of the direct-access operations (SpecQuery) and of the CLI   *)
(* loop (SpecCLI)                                                          *)

DirectOps == {"findByIndex", "findOneByIndex", "findRawByIndex", "iterateAll"}

\* C18: findByIndex, findOneByIndex, findRawByIndex and iterateAll called
\* with an undeclared table name fail with TableNotFound and leave the
\* database unchanged.
C18_UnknownTableRaises ==
    (lastOp \in DirectOps /\ qArgs[2] \notin Tables) =>
        /\ lastError = "TableNotFound"
        /\ DbIs(prevDb)

\* the records of the complete frames of the stream, ingested once
StreamOnce == ingest(FreshDb, stream)

\* C19: between two ingest calls the CLI loop keeps only the bytes the last
\* call did not consume, and when the input of n complete frames is exhausted
\* exactly n records have been ingested.
C19_CliIngestsEachFrameOnce ==
    /\ lastOp = "cliRead" => buffer = SubSeq(lastInput, lastConsumed + 1, Len(lastInput))
    /\ lastOp = "cliDone" =>
          /\ recordCount_ = StreamOnce.recordsProcessed
          /\ totalRecords = StreamOnce.recordsProcessed
          /\ DbIs(StreamOnce.db)

----------------------------------------------------------------------------
(* Properties of searchFirst (SpecIndex) and of the tree shape (SpecBTree)  *)

\* C23: searchFirst(k) reports found exactly when an entry with a key equal
\* to k under compareValues has been inserted, and the entry it returns is
\* one of those entries, whatever keys the index holds.
C23_SearchFirstExact ==
    lastOp = "searchFirst" =>
        /\ qResult.found <=> EqualTo(qArgs[1]) # {}
        /\ qResult.found => qResult.entry \in EqualTo(qArgs[1])

\* the depths of the leaves below nodeId, itself at depth d
RECURSIVE LeafDepths(_, _, _)
LeafDepths(t, nodeId, d) ==
    LET node == t.nodes_[nodeId]
    IN IF node.isLeaf THEN {d}
       ELSE UNION {LeafDepths(t, node.children[i], d + 1) : i \in 1..Len(node.children)}

\* the number of entries stored in the nodes
RECURSIVE StoredEntries(_, _)
StoredEntries(nodes, ids) ==
    IF ids = {} THEN 0
    ELSE LET id == CHOOSE x \in ids : TRUE
         IN Len(nodes[id].entries) + StoredEntries(nodes, ids \ {id})

\* C27: every node holds at most order-1 entries; an internal node has one
\* child more than entries; all leaves are at one depth; the keys of the
\* in-order traversal are non-decreasing; the parentId of a non-root node is
\* the node that lists it as a child; entryCount is the number of stored
\* entries.
C27_TreeShape ==
    /\ \A id \in DOMAIN nodes_ :
          LET node == nodes_[id]
          IN /\ Len(node.entries) <= order_ - 1
             /\ ~node.isLeaf => Len(node.children) = Len(node.entries) + 1
             /\ ~node.isLeaf => \A i \in 1..Len(node.children) :
                                   nodes_[node.children[i]].parentId = id
             /\ id # rootId_ =>
                   /\ node.parentId \in DOMAIN nodes_
                   /\ \E i \in 1..Len(nodes_[node.parentId].children) :
                         nodes_[node.parentId].children[i] = id
    /\ Cardinality(LeafDepths(Tree, rootId_, 1)) = 1
    /\ \A i \in 1..(Len(BTreeAll(Tree)) - 1) :
          compareValues(BTreeAll(Tree)[i].key, BTreeAll(Tree)[i + 1].key) <= 0
    /\ entryCount_ = StoredEntries(nodes_, DOMAIN nodes_)
    /\ entryCount_ = Len(inserted)

\* C27 witness: a tree of height 3 holding duplicates and Null keys, built
\* after a clear
C27_Witness ==
    /\ lastOp = "insert" /\ Height = 3
    /\ Len(inserted) = 6
    /\ \E e \in InsertedSet : e.key = Null
    /\ Cardinality({e \in InsertedSet : e.key = Int32V(1)}) >= 2

----------------------------------------------------------------------------
(* Properties of the SchemaAnalyzer (SpecGraph, SpecAnalyzer)               *)

\* the include graph of the added schema files
IncludeGraph == [f \in DOMAIN schemaContents |-> schemaContents[f].includes]

IsEdge(g, x, y) == x \in DOMAIN g /\ y \in g[x]

\* p is a closed walk of g: it starts and ends with one file and each
\* consecutive pair is an include edge
IsCyclePath(g, p) ==
    /\ Len(p) >= 2
    /\ p[1] = p[Len(p)]
    /\ \A i \in 1..(Len(p) - 1) : IsEdge(g, p[i], p[i + 1])

HasDirectedCycle(g) ==
    \E n \in 2..(Cardinality(FileSet) + 1) : \E p \in [1..n -> FileSet] : IsCyclePath(g, p)

CycleReported ==
    analysis.cycle.present /\ analysis.cycle.hasCycle /\ analysis.errors # <<>>

\* C21: analyze() reports a cycle exactly when the include graph of the added
\* schema files has a directed cycle, and the reported cyclePath is a closed
\* walk of include edges.
C21_CycleReportedIffCyclic ==
    lastOp = "analyze" =>
        /\ CycleReported <=> HasDirectedCycle(IncludeGraph)
        /\ (analysis.cycle.present \/ analysis.errors # <<>>) => CycleReported
        /\ CycleReported => IsCyclePath(IncludeGraph, analysis.cycle.cyclePath)

\* the files of the include graph: each added file and each included file
GraphFiles == DOMAIN IncludeGraph \cup UNION {IncludeGraph[f] : f \in DOMAIN IncludeGraph}

PositionsOf(s, x) == {i \in 1..Len(s) : s[i] = x}

\* C22: for an include graph without cycles importOrder holds every file of
\* the graph exactly once and every file after all the files it includes.
C22_ImportOrderTopological ==
    (lastOp = "analyze" /\ ~HasDirectedCycle(IncludeGraph)) =>
        /\ \A f \in GraphFiles : Cardinality(PositionsOf(analysis.importOrder, f)) = 1
        /\ \A f \in DOMAIN IncludeGraph : \A d \in IncludeGraph[f] :
              \A i \in PositionsOf(analysis.importOrder, f) :
                  \A j \in PositionsOf(analysis.importOrder, d) : j < i

\* the table definitions of the added schemas, and the type names they define
AddedTableDefs ==
    UNION {SeqToSet(schemaContents[f].tables) : f \in DOMAIN schemaContents}
AddedTableNames == {t.name : t \in AddedTableDefs}
AddedUnionNames ==
    UNION {{u.name : u \in SeqToSet(schemaContents[f].unions)} : f \in DOMAIN schemaContents}

\* C24: analyze() records a reference and generates one junction table
\* Parent__field for every table field whose type is a table or a union
\* defined in any added schema, wherever that type is defined.
C24_EveryReferenceRecorded ==
    lastOp = "analyze" =>
        \A t \in AddedTableDefs : \A i \in 1..Len(t.fields) :
            LET f == t.fields[i]
            IN f.typeName \in AddedTableNames \cup AddedUnionNames =>
                  /\ t.name \in DOMAIN analysis.tables
                  /\ \E r \in SeqToSet(analysis.tables[t.name].references) :
                        r.fieldName = f.fieldName /\ r.referencedType = f.typeName
                  /\ Cardinality({k \in 1..Len(analysis.junctionTables) :
                                     analysis.junctionTables[k].name
                                         = <<t.name, "__", f.fieldName>>}) = 1

\* C28: a second analyze() with no addSchema in between returns the same
\* tables, junction tables, import order and cycle report as the first.
C28_AnalyzeIdempotent ==
    (lastOp = "analyze" /\ prevAnalysis # NoAnalysis) =>
        /\ analysis.tables = prevAnalysis.tables
        /\ analysis.junctionTables = prevAnalysis.junctionTables
        /\ analysis.importOrder = prevAnalysis.importOrder
        /\ analysis.cycle = prevAnalysis.cycle

----------------------------------------------------------------------------
(* Properties of the JunctionManager (SpecJunction)                         *)

\* the parent and the child of a live junction row, each with its table
ParentOf(e) == <<junctionTables[e.junction].definition.parentTable, e.row.parentRowId>>
ChildOf(e) == <<TableOfRow(e.row.childRowId), e.row.childRowId>>

\* the rows deleteWithCascade is to remove: those of the deleted parent and,
\* repeatedly, those of every child left without a referencing row
RECURSIVE CascadeClosure(_, _)
CascadeClosure(live, cascaded) ==
    LET removed == {e \in live : ParentOf(e) \in cascaded}
        orphans == {ChildOf(e) : e \in {x \in removed :
                       \A y \in live \ removed : ChildOf(y) # ChildOf(x)}}
    IN IF orphans \subseteq cascaded THEN cascaded
       ELSE CascadeClosure(live, cascaded \cup orphans)

----------------------------------------------------------------------------
(* Properties of the SqliteIndex with UInt32 keys (SpecUInt32)              *)

\* a <= b as unsigned 32-bit values
UInt32Leq(a, b) == a.big < b.big \/ (a.big = b.big /\ a.half <= b.half)

\* C26: with an unsigned 32-bit key type search returns the entries inserted
\* with the same key, range(lo, hi) exactly those with lo <= key <= hi in
\* unsigned order, and all() the keys in increasing unsigned order.
C26_UnsignedOrder ==
    /\ lastOp = "search" =>
          SeqToSet(sqlResult) = {e \in SeqToSet(sqlInserted) : e.key = qArgs[1]}
    /\ lastOp = "range" =>
          SeqToSet(sqlResult) = {e \in SeqToSet(sqlInserted) :
                                    UInt32Leq(qArgs[1], e.key) /\ UInt32Leq(e.key, qArgs[2])}
    /\ lastOp = "all" =>
          /\ SeqToSet(sqlResult) = SeqToSet(sqlInserted)
          /\ \A i \in 1..(Len(sqlResult) - 1) :
                UInt32Leq(sqlResult[i].key, sqlResult[i + 1].key)

----------------------------------------------------------------------------
(* Properties of FlatSQLClient.init (SpecClient)                            *)

\* C29: however init() calls overlap, exactly one worker is created, and an
\* init() promise resolves only after the worker has sent ready and the init
\* request has been answered.
C29_InitSafeUnderOverlap ==
    /\ Cardinality(DOMAIN workers) <= 1
    /\ \A c \in InitCallIds :
          initCalls[c].at = "resolved" => (ready /\ answered # {})

====
